---- MODULE Spec2Model ----
(***************************************************************************)
(* A model of the resume backends of GenAI_hack: the tolerant JSON         *)
(* extractor (_safe_json_loads), the optimizer (optimize_resume_json), the *)
(* datastore managers (DatabaseManager, Firestore and MySQL variants) and  *)
(* the upload handler.                                                     *)
(*                                                                         *)
(* Python values are tagged tuples, the tag first:                         *)
(*   None   <<"null">>             bool  <<"bool", TRUE>>                  *)
(*   int    <<"num", 3>>           str   <<"str", <<"a", "\n", "b">>>>     *)
(*   list   <<"list", <<v1, v2>>>>                                         *)
(*   dict   <<"dict", <<<<k1, v1>>, <<k2, v2>>>>>>  (insertion order)      *)
(* The content of a str is a sequence of symbols: one character each,      *)
(* except that a run of characters that no operation of the code splits (a *)
(* word of a description, the literals null and true) may be written as    *)
(* one symbol. Keys of dicts are TLA+ strings; Chars gives their           *)
(* characters where the code looks into them.                              *)
(***************************************************************************)
EXTENDS Integers, Sequences, FiniteSets, TLC

VARIABLES
    \* SpecMerge: one call of optimize_resume_json
    mpc,         \* "call" before the call, "done" after
    mvariant,    \* which copy of optimize_resume_json is called
    resume_json, \* the argument resume_json
    user_input,  \* the argument user_input
    outcome,     \* what the model call does: <<"text", t>> or <<"raise">>
    keyOrder,    \* the order in which keys_present is iterated
    mresult,     \* the record returned
    \* SpecStore: one owner's data and the requests made for it
    svariant,    \* which backend serves the requests
    store,       \* the owner's data in the datastore
    lastOp,      \* the last request: [op, arg, merged, ret]
    nreq,        \* the number of requests served
    \* SpecUpdate: one run of update_resume_relational, write by write
    upd,         \* [pc, old, parsed_data, atFront, store, writes, ret, failed]
    \* SpecUpload: two POST /upload requests served concurrently
    reqs,        \* request -> [pc, filename, content, handle, tmp_file_path, resume_text, response]
    fs,          \* the upload directory: [paths: name -> inode or 0, data: inode -> content]
    persisted,   \* user -> the resume text whose record the datastore holds
    \* specifications of single functions: one call and what it gave
    pcall,       \* [fn, args, pc]
    presult,     \* the value returned
    \* SpecFlow: one POST /upload request, step by step
    flow,        \* [variant, pc, file, structure, skills, resume_text, ...]
    jpc,        \* SpecJson: "call" before _safe_json_loads runs, "done" after
    jvariant,   \* SpecJson: which copy of _safe_json_loads is called
    raw,        \* SpecJson: the argument s
    fallback,   \* SpecJson: the argument fallback
    jresult     \* SpecJson: the outcome, <<"return", v>> or <<"raise", e>>

varsJson == <<jpc, jvariant, raw, fallback, jresult>>
varsMerge == <<mpc, mvariant, resume_json, user_input, outcome, keyOrder, mresult>>
varsStore == <<svariant, store, lastOp, nreq>>
varsUpdate == <<upd>>
varsUpload == <<reqs, fs, persisted>>
varsPure == <<pcall, presult>>
varsFlow == <<flow>>
vars == <<varsJson, varsMerge, varsStore, varsUpdate, varsUpload, varsPure, varsFlow>>

\* ------------------------------------------------------------------ bounds
MaxLen == 4
MaxRequests == 3
RecursionLimit == 4

\* ----------------------------------------------------------- Python values
None == <<"null">>
Str(s) == <<"str", s>>
\* a str of one symbol
S(a) == <<"str", <<a>>>>
Num(n) == <<"num", n>>
List(items) == <<"list", items>>
Dict(pairs) == <<"dict", pairs>>
Tag(v) == v[1]
IsDict(v) == Tag(v) = "dict"
IsList(v) == Tag(v) = "list"
IsStr(v) == Tag(v) = "str"

\* bool(v): None, False, 0, "", [] and {} are falsy
Truthy(v) ==
    CASE Tag(v) = "null" -> FALSE
      [] Tag(v) = "bool" -> v[2]
      [] Tag(v) = "num" -> v[2] # 0
      [] OTHER -> Len(v[2]) > 0

Variants == {"integrate", "Optimization"}

\* ------------------------------------------------------------- json.loads
WS == {" ", "\n"}
Quote == "\""
DigitChars == <<"0", "1", "2", "3", "4", "5", "6", "7", "8", "9">>
Digits == {DigitChars[i] : i \in 1..10}
DigitVal(c) == (CHOOSE i \in 1..10 : DigitChars[i] = c) - 1

Err(kind) == [ok |-> FALSE, err |-> kind]
Ok(v, j) == [ok |-> TRUE, val |-> v, next |-> j]

RECURSIVE SkipWs(_, _)
SkipWs(s, i) == IF i <= Len(s) /\ s[i] \in WS THEN SkipWs(s, i + 1) ELSE i

\* dict[k] = v: a key already present keeps its place and takes the new value
DictSet(pairs, k, v) ==
    IF \E i \in 1..Len(pairs) : pairs[i][1] = k
    THEN [i \in 1..Len(pairs) |-> IF pairs[i][1] = k THEN <<k, v>> ELSE pairs[i]]
    ELSE Append(pairs, <<k, v>>)

\* the body of a string literal from position i on, up to the closing quote;
\* a raw newline is a control character, which strict decoding rejects
Backslash == "\\"
RECURSIVE ScanString(_, _, _)
ScanString(s, i, acc) ==
    IF i > Len(s) THEN Err("decode")
    ELSE IF s[i] = Quote THEN Ok(acc, i + 1)
    ELSE IF s[i] = "\n" THEN Err("decode")
    ELSE IF s[i] = Backslash
         THEN IF i + 1 > Len(s) THEN Err("decode")
              ELSE IF s[i + 1] = "n" THEN ScanString(s, i + 2, Append(acc, "\n"))
              ELSE IF s[i + 1] \in {Quote, Backslash}
                   THEN ScanString(s, i + 2, Append(acc, s[i + 1]))
              ELSE Err("decode")
    ELSE ScanString(s, i + 1, Append(acc, s[i]))

\* the key of a member: the characters of the literal as one TLA+ string
RECURSIVE KeyOf(_)
KeyOf(q) == IF Len(q) = 0 THEN "" ELSE Head(q) \o KeyOf(Tail(q))

RECURSIVE ScanDigits(_, _, _)
ScanDigits(s, i, n) ==
    IF i <= Len(s) /\ s[i] \in Digits
    THEN ScanDigits(s, i + 1, 10 * n + DigitVal(s[i]))
    ELSE Ok(Num(n), i)

\* the decoder: depth counts the enclosing containers; entering one more than
\* the interpreter allows raises RecursionError, which is no JSONDecodeError
RECURSIVE ScanOnce(_, _, _), ParseMembers(_, _, _, _), ParseItems(_, _, _, _)
ScanOnce(s, i, depth) ==
    IF i > Len(s) THEN Err("decode")
    ELSE CASE s[i] = Quote ->
                LET r == ScanString(s, i + 1, <<>>)
                IN IF r.ok THEN Ok(Str(r.val), r.next) ELSE r
           [] s[i] = "{" ->
                IF depth >= RecursionLimit THEN Err("recursion")
                ELSE LET j == SkipWs(s, i + 1)
                     IN IF j <= Len(s) /\ s[j] = "}" THEN Ok(Dict(<<>>), j + 1)
                        ELSE ParseMembers(s, j, depth + 1, <<>>)
           [] s[i] = "[" ->
                IF depth >= RecursionLimit THEN Err("recursion")
                ELSE LET j == SkipWs(s, i + 1)
                     IN IF j <= Len(s) /\ s[j] = "]" THEN Ok(List(<<>>), j + 1)
                        ELSE ParseItems(s, j, depth + 1, <<>>)
           [] s[i] = "null" -> Ok(None, i + 1)
           [] s[i] = "true" -> Ok(<<"bool", TRUE>>, i + 1)
           [] s[i] = "false" -> Ok(<<"bool", FALSE>>, i + 1)
           [] s[i] = "0" -> Ok(Num(0), i + 1)
           [] s[i] \in Digits -> ScanDigits(s, i, 0)
           [] OTHER -> Err("decode")

ParseMembers(s, i, depth, acc) ==
    IF i > Len(s) \/ s[i] # Quote THEN Err("decode")
    ELSE LET k == ScanString(s, i + 1, <<>>)
         IN IF ~k.ok THEN k
            ELSE LET c == SkipWs(s, k.next)
                 IN IF c > Len(s) \/ s[c] # ":" THEN Err("decode")
                    ELSE LET v == ScanOnce(s, SkipWs(s, c + 1), depth)
                         IN IF ~v.ok THEN v
                            ELSE LET e == SkipWs(s, v.next)
                                     acc2 == DictSet(acc, KeyOf(k.val), v.val)
                                 IN IF e > Len(s) THEN Err("decode")
                                    ELSE IF s[e] = "}" THEN Ok(Dict(acc2), e + 1)
                                    ELSE IF s[e] = ","
                                         THEN ParseMembers(s, SkipWs(s, e + 1), depth, acc2)
                                    ELSE Err("decode")

ParseItems(s, i, depth, acc) ==
    LET v == ScanOnce(s, i, depth)
    IN IF ~v.ok THEN v
       ELSE LET e == SkipWs(s, v.next)
                acc2 == Append(acc, v.val)
            IN IF e > Len(s) THEN Err("decode")
               ELSE IF s[e] = "]" THEN Ok(List(acc2), e + 1)
               ELSE IF s[e] = "," THEN ParseItems(s, SkipWs(s, e + 1), depth, acc2)
               ELSE Err("decode")

\* json.loads(s): one value between optional whitespace, nothing after it
JsonLoads(s) ==
    LET r == ScanOnce(s, SkipWs(s, 1), 0)
    IN IF ~r.ok THEN r
       ELSE IF SkipWs(s, r.next) <= Len(s) THEN Err("decode")
       ELSE r

\* ------------------------------------------------------- _safe_json_loads
RECURSIVE StripLeft(_)
StripLeft(s) == IF Len(s) > 0 /\ Head(s) \in WS THEN StripLeft(Tail(s)) ELSE s
RECURSIVE StripRight(_)
StripRight(s) ==
    IF Len(s) > 0 /\ s[Len(s)] \in WS THEN StripRight(SubSeq(s, 1, Len(s) - 1)) ELSE s
Strip(s) == StripRight(StripLeft(s))

StartsWith(s, p) == Len(s) >= Len(p) /\ SubSeq(s, 1, Len(p)) = p
EndsWith(s, p) == Len(s) >= Len(p) /\ SubSeq(s, Len(s) - Len(p) + 1, Len(s)) = p

\* the character U+0060, which a TLA+ string cannot hold
Backtick == "U+0060"
FenceOpen == <<Backtick, Backtick, Backtick, "j", "s", "o", "n">>
FenceClose == <<Backtick, Backtick, Backtick>>

\* re.search(r"\{.*\}", s, flags=re.DOTALL): from the first "{" to the last "}"
\* after it; <<>> when there is no match
RegexSearchObject(s) ==
    LET opens == {i \in 1..Len(s) : s[i] = "{"}
        closes == {i \in 1..Len(s) : s[i] = "}"}
    IN IF opens = {} THEN <<>>
       ELSE LET a == CHOOSE i \in opens : \A j \in opens : i <= j
                after == {i \in closes : i > a}
            IN IF after = {} THEN <<>>
               ELSE SubSeq(s, a, CHOOSE i \in after : \A j \in after : j <= i)

Return(v) == <<"return", v>>
Raise(e) == <<"raise", e>>

\* what the handler of json.JSONDecodeError lets through
Decoded(r, orElse) ==
    IF r.ok THEN Return(r.val)
    ELSE IF r.err = "recursion" THEN Raise("RecursionError")
    ELSE orElse

SafeJsonLoads(s, fb, variant) ==
    IF Len(s) = 0 THEN Return(fb)
    ELSE LET s1 == Strip(s)
             s2 == IF StartsWith(s1, FenceOpen) THEN SubSeq(s1, 8, Len(s1)) ELSE s1
             s3 == IF EndsWith(s2, FenceClose) THEN SubSeq(s2, 1, Len(s2) - 3) ELSE s2
             s4 == IF variant = "integrate" THEN Strip(s3) ELSE s3
             m == RegexSearchObject(s4)
         IN Decoded(JsonLoads(s4),
                    IF m = <<>> THEN Return(fb)
                    ELSE Decoded(JsonLoads(m), Return(fb)))

\* ------------------------------------------------------------ SpecJson
Alphabet == {"{", "}", "[", "]", Quote, "x", "1", " "}

RECURSIVE Texts(_)
Texts(n) ==
    IF n = 0 THEN {<<>>}
    ELSE LET shorter == Texts(n - 1)
         IN shorter \cup {Append(t, c) : t \in {u \in shorter : Len(u) = n - 1}, c \in Alphabet}

RECURSIVE Repeat(_, _)
Repeat(c, n) == IF n = 0 THEN <<>> ELSE <<c>> \o Repeat(c, n - 1)

\* nesting one deeper than the interpreter allows
DeepTexts ==
    { Repeat("[", RecursionLimit + 1),
      <<"x", " ">> \o Repeat("{", RecursionLimit + 1) \o <<"}">>,
      Repeat("[", RecursionLimit) \o Repeat("]", RecursionLimit) }

Fallbacks == {None, Dict(<<<<"summary", S("s")>>>>)}

MergeIdle ==
    /\ mpc = "off"
    /\ mvariant = "integrate"
    /\ resume_json = None
    /\ user_input = <<>>
    /\ outcome = <<"raise">>
    /\ keyOrder = <<>>
    /\ mresult = None

NoOp == [op |-> "none", arg |-> None, merged |-> None, ret |-> None]
StoreIdle ==
    /\ svariant = "integrate"
    /\ store = <<>>
    /\ lastOp = NoOp
    /\ nreq = 0

UpdateIdle == upd = <<>>
PureIdle == pcall = <<>> /\ presult = <<>>
FlowIdle == flow = <<>>
UploadIdle ==
    /\ reqs = <<>>
    /\ fs = <<>>
    /\ persisted = <<>>

JsonIdle ==
    /\ jpc = "off"
    /\ jvariant = "integrate"
    /\ raw = <<>>
    /\ fallback = None
    /\ jresult = <<"none">>

JsonInit ==
    /\ MergeIdle
    /\ StoreIdle
    /\ UpdateIdle
    /\ UploadIdle
    /\ PureIdle
    /\ FlowIdle
    /\ jpc = "call"
    /\ jvariant \in Variants
    /\ raw \in Texts(MaxLen) \cup DeepTexts
    /\ fallback \in Fallbacks
    /\ jresult = <<"none">>

CallSafeJsonLoads ==
    /\ jpc = "call"
    /\ jresult' = SafeJsonLoads(raw, fallback, jvariant)
    /\ jpc' = "done"
    /\ UNCHANGED <<jvariant, raw, fallback, varsMerge, varsStore, varsUpdate, varsUpload, varsPure, varsFlow>>

JsonNext == CallSafeJsonLoads

SpecJson == JsonInit /\ [][JsonNext]_vars

\* C1: _safe_json_loads never raises, whatever the string, and a string with
\* no JSON content (only letters and whitespace, or empty) yields the fallback.
NoJsonContent(s) == \A i \in 1..Len(s) : s[i] \in WS \cup {"x"}
C1_NeverRaises ==
    jpc = "done" =>
        /\ jresult[1] = "return"
        /\ NoJsonContent(raw) => jresult = Return(fallback)

\* ------------------------------------------------------- Python dicts
DictHas(d, k) == \E i \in 1..Len(d[2]) : d[2][i][1] = k
\* d.get(k): None when the key is absent
DictGet(d, k) ==
    IF DictHas(d, k)
    THEN d[2][CHOOSE i \in 1..Len(d[2]) : d[2][i][1] = k][2]
    ELSE None
DictKeys(d) == [i \in 1..Len(d[2]) |-> d[2][i][1]]
DictPut(d, k, v) == Dict(DictSet(d[2], k, v))
\* old.update(new): new wins per key, keys of old that new lacks are kept
RECURSIVE DictUpdate(_, _)
DictUpdate(old, new) ==
    IF Len(new[2]) = 0 THEN old
    ELSE DictUpdate(DictPut(old, new[2][1][1], new[2][1][2]), Dict(Tail(new[2])))

SeqToSet(q) == {q[i] : i \in 1..Len(q)}

\* --------------------------------------------------- section names as text
\* the characters of a key of a record, for the keys the model uses
Chars(k) ==
    CASE k = "summary" -> <<"s", "u", "m", "m", "a", "r", "y">>
      [] k = "projects" -> <<"p", "r", "o", "j", "e", "c", "t", "s">>
      [] k = "personal_projects" ->
            <<"p", "e", "r", "s", "o", "n", "a", "l", "_", "p", "r", "o", "j", "e", "c", "t", "s">>
      [] k = "personal_info" ->
            <<"p", "e", "r", "s", "o", "n", "a", "l", "_", "i", "n", "f", "o">>
      [] k = "work_experience" ->
            <<"w", "o", "r", "k", "_", "e", "x", "p", "e", "r", "i", "e", "n", "c", "e">>
      [] k = "education" -> <<"e", "d", "u", "c", "a", "t", "i", "o", "n">>
      [] k = "skills" -> <<"s", "k", "i", "l", "l", "s">>
      [] k = "skills " -> <<"s", "k", "i", "l", "l", "s", " ">>
      [] k = "Work Experience" ->
            <<"W", "o", "r", "k", " ", "E", "x", "p", "e", "r", "i", "e", "n", "c", "e">>
      [] k = "Achievements" ->
            <<"A", "c", "h", "i", "e", "v", "e", "m", "e", "n", "t", "s">>
      [] k = "resume_metadata" ->
            <<"r", "e", "s", "u", "m", "e", "_", "m", "e", "t", "a", "d", "a", "t", "a">>
      [] OTHER -> <<k>>

\* str.lower() and str.replace(" ", "_"), symbol by symbol
LowerChar(c) ==
    CASE c = "A" -> "a" [] c = "P" -> "p" [] c = "W" -> "w"
      [] c = "D" -> "d" [] c = "F" -> "f" [] c = "E" -> "e" [] OTHER -> c
Lower(s) == [i \in 1..Len(s) |-> LowerChar(s[i])]
SpacesToUnderscores(s) == [i \in 1..Len(s) |-> IF s[i] = " " THEN "_" ELSE s[i]]

\* a in b, for str
IsSubstr(a, b) ==
    \E i \in 0..(Len(b) - Len(a)) : SubSeq(b, i + 1, i + Len(a)) = a

\* _norm(s): (s or "").strip()
Norm(s) == Strip(s)

Mut_ParseUserOptimizationInput(inp) ==
    LET val == Strip(inp)
        colons == {i \in 1..Len(val) : val[i] = ":"}
    IN IF Len(val) = 0 THEN <<None, None>>
       ELSE IF colons # {}
            THEN LET c == CHOOSE i \in colons : \A j \in colons : j <= i
                 IN <<Str(Strip(SubSeq(val, 1, c - 1))),
                      Str(Strip(SubSeq(val, c + 1, Len(val))))>>
       ELSE IF \A i \in 1..Len(val) : val[i] \notin WS THEN <<Str(val), None>>
       ELSE <<None, Str(val)>>

\* parse_user_optimization_input(inp) -> (section, instruction)
ParseUserOptimizationInput(inp) ==
    LET val == Strip(inp)
        colons == {i \in 1..Len(val) : val[i] = ":"}
    IN IF Len(val) = 0 THEN <<None, None>>
       ELSE IF colons # {}
            THEN LET c == CHOOSE i \in colons : \A j \in colons : i <= j
                 IN <<Str(Norm(SubSeq(val, 1, c - 1))),
                      Str(Norm(SubSeq(val, c + 1, Len(val))))>>
       ELSE IF \A i \in 1..Len(val) : val[i] \notin WS THEN <<Str(val), None>>
       ELSE <<None, Str(val)>>

\* _best_section_key(target_key, available_keys): the first key, in the order
\* the keys are iterated, that equals, contains or is contained in the target
RECURSIVE FirstAccepting(_, _)
FirstAccepting(t, keys) ==
    IF Len(keys) = 0 THEN None
    ELSE LET k_norm == SpacesToUnderscores(Lower(Chars(Head(keys))))
         IN IF t = k_norm \/ IsSubstr(t, k_norm) \/ IsSubstr(k_norm, t)
            THEN <<"key", Head(keys)>>
            ELSE FirstAccepting(t, Tail(keys))

BestSectionKey(target_key, available_keys) ==
    IF Len(target_key) = 0 THEN None
    ELSE FirstAccepting(SpacesToUnderscores(Lower(Strip(target_key))), available_keys)

\* ------------------------------------------------------------ json.dumps
RECURSIVE NumDigits(_)
NumDigits(n) ==
    IF n < 10 THEN <<DigitChars[n + 1]>>
    ELSE NumDigits(n \div 10) \o <<DigitChars[(n % 10) + 1]>>

\* a str as json.dumps writes it between the quotes
RECURSIVE Escaped(_)
Escaped(q) ==
    IF Len(q) = 0 THEN <<>>
    ELSE (CASE Head(q) = "\n" -> <<Backslash, "n">>
            [] Head(q) \in {Quote, Backslash} -> <<Backslash, Head(q)>>
            [] OTHER -> <<Head(q)>>) \o Escaped(Tail(q))

RECURSIVE Dumps(_), DumpsItems(_), DumpsMembers(_)
Dumps(v) ==
    CASE Tag(v) = "null" -> <<"null">>
      [] Tag(v) = "bool" -> IF v[2] THEN <<"true">> ELSE <<"false">>
      [] Tag(v) = "num" -> NumDigits(v[2])
      [] Tag(v) = "str" -> <<Quote>> \o Escaped(v[2]) \o <<Quote>>
      [] Tag(v) = "list" -> <<"[">> \o DumpsItems(v[2]) \o <<"]">>
      [] OTHER -> <<"{">> \o DumpsMembers(v[2]) \o <<"}">>
DumpsItems(items) ==
    IF Len(items) = 0 THEN <<>>
    ELSE Dumps(items[1])
         \o (IF Len(items) > 1 THEN <<",", " ">> \o DumpsItems(Tail(items)) ELSE <<>>)
DumpsMembers(pairs) ==
    IF Len(pairs) = 0 THEN <<>>
    ELSE <<Quote, pairs[1][1], Quote, ":", " ">> \o Dumps(pairs[1][2])
         \o (IF Len(pairs) > 1 THEN <<",", " ">> \o DumpsMembers(Tail(pairs)) ELSE <<>>)

\* --------------------------------------------------- optimize_resume_json
\* the loop over optimized_data.items() of the integrate variant
\* a merge that extends a list section instead of replacing it
Mut_MergeValue(resume_json_, key, value) ==
    IF DictHas(resume_json_, key) /\ IsList(DictGet(resume_json_, key)) /\ IsList(value)
    THEN List(DictGet(resume_json_, key)[2] \o value[2])
    ELSE value
MergeValue(resume_json_, key, value) ==
    IF DictHas(resume_json_, key) /\ IsDict(DictGet(resume_json_, key)) /\ IsDict(value)
    THEN DictUpdate(DictGet(resume_json_, key), value)
    ELSE value

RECURSIVE MergeItems(_, _)
MergeItems(resume_json_, pairs) ==
    IF Len(pairs) = 0 THEN resume_json_
    ELSE MergeItems(
            DictPut(resume_json_, pairs[1][1],
                    MergeValue(resume_json_, pairs[1][1], pairs[1][2])),
            Tail(pairs))

\* the whole-record branch: integrate merges (and an optimized_data without
\* .items() raises, which the except clause turns into "no change");
\* Optimization rebinds resume_json to optimized_data
MergeOptimizedRecord(resume_json_, optimized_data, variant) ==
    IF variant = "integrate"
    THEN IF IsDict(optimized_data) THEN MergeItems(resume_json_, optimized_data[2])
         ELSE resume_json_
    ELSE optimized_data

\* a targeted merge that keeps nothing but the section it was given
Mut_MergeOptimizedSection(resume_json_, mapped, optimized_data) ==
    Dict(<< <<mapped, optimized_data>> >>)

\* the targeted branch: resume_json[mapped] = optimized_data
MergeOptimizedSection(resume_json_, mapped, optimized_data) ==
    DictPut(resume_json_, mapped, optimized_data)

\* response.text parsed by _safe_json_loads(.., fallback=None); a failed model
\* call raises inside the same try block
LoadModelOutput(outcome_, variant) ==
    IF outcome_[1] = "raise" THEN Raise("APIError")
    ELSE SafeJsonLoads(outcome_[2], None, variant)

SectionReq(user_input_) == ParseUserOptimizationInput(user_input_)[1]
MappedKey(user_input_, keys) == BestSectionKey(SectionReq(user_input_)[2], keys)

OptimizeResumeJson(resume_json_, user_input_, outcome_, keys, variant) ==
    LET section_req == SectionReq(user_input_)
        targeted == Truthy(section_req)
        mapped == IF targeted THEN MappedKey(user_input_, keys) ELSE None
        loaded == LoadModelOutput(outcome_, variant)
    IN IF targeted /\ mapped = None THEN resume_json_
       ELSE IF loaded[1] = "raise" THEN resume_json_
       ELSE IF ~Truthy(loaded[2]) THEN resume_json_
       ELSE IF targeted THEN MergeOptimizedSection(resume_json_, mapped[2], loaded[2])
       ELSE MergeOptimizedRecord(resume_json_, loaded[2], variant)

\* keys_present: list(resume_json.keys()) keeps the record's order (integrate);
\* set(resume_json.keys()) is iterated in hash order, which differs from run
\* to run (Optimization): any key may be met first
MoveToFront(q, i) == <<q[i]>> \o SubSeq(q, 1, i - 1) \o SubSeq(q, i + 1, Len(q))
KeysPresent(resume_json_, variant) ==
    IF variant = "integrate" \/ Len(DictKeys(resume_json_)) = 0
    THEN {DictKeys(resume_json_)}
    ELSE {MoveToFront(DictKeys(resume_json_), i) : i \in 1..Len(DictKeys(resume_json_))}

\* ------------------------------------------------ _stringify_list_content
\* str(v) of a value that is no str: the text Python prints for it
RECURSIVE PyRepr(_), PyReprItems(_), PyReprMembers(_)
PyRepr(v) ==
    CASE Tag(v) = "null" -> <<"None">>
      [] Tag(v) = "bool" -> IF v[2] THEN <<"True">> ELSE <<"False">>
      [] Tag(v) = "num" -> NumDigits(v[2])
      [] Tag(v) = "str" -> <<"'">> \o v[2] \o <<"'">>
      [] Tag(v) = "list" -> <<"[">> \o PyReprItems(v[2]) \o <<"]">>
      [] OTHER -> <<"{">> \o PyReprMembers(v[2]) \o <<"}">>
PyReprItems(items) ==
    IF Len(items) = 0 THEN <<>>
    ELSE PyRepr(items[1])
         \o (IF Len(items) > 1 THEN <<",", " ">> \o PyReprItems(Tail(items)) ELSE <<>>)
PyReprMembers(pairs) ==
    IF Len(pairs) = 0 THEN <<>>
    ELSE <<"'", pairs[1][1], "'", ":", " ">> \o PyRepr(pairs[1][2])
         \o (IF Len(pairs) > 1 THEN <<",", " ">> \o PyReprMembers(Tail(pairs)) ELSE <<>>)

\* str(v)
PyStr(v) == IF IsStr(v) THEN v[2] ELSE PyRepr(v)

\* k.replace('_', ' ').title(), for the keys the model uses
TitleOf(k) ==
    CASE k = "tech_stack" -> <<"Tech", " ", "Stack">>
      [] k = "title" -> <<"Title">>
      [] OTHER -> <<k>>

\* ", ".join(f"{k.replace('_', ' ').title()}: {v}" for k, v in item.items())
RECURSIVE DictLine(_)
DictLine(pairs) ==
    IF Len(pairs) = 0 THEN <<>>
    ELSE TitleOf(pairs[1][1]) \o <<":", " ">> \o PyStr(pairs[1][2])
         \o (IF Len(pairs) > 1 THEN <<",", " ">> \o DictLine(Tail(pairs)) ELSE <<>>)

StringPart(item) ==
    IF IsStr(item) THEN item[2]
    ELSE IF IsDict(item) THEN DictLine(item[2])
    ELSE PyStr(item)

\* "\n".join(string_parts)
RECURSIVE JoinLines(_)
JoinLines(items) ==
    IF Len(items) = 0 THEN <<>>
    ELSE StringPart(items[1])
         \o (IF Len(items) > 1 THEN <<"\n">> \o JoinLines(Tail(items)) ELSE <<>>)

StringifyListContent(content) ==
    IF ~IsList(content)
    THEN IF Truthy(content) THEN Str(PyStr(content)) ELSE Str(<<>>)
    ELSE Str(JoinLines(content[2]))

\* s.split('\n'): the lines of a str, as a list of str
RECURSIVE SplitLines(_, _, _)
SplitLines(q, cur, acc) ==
    IF Len(q) = 0 THEN Append(acc, Str(cur))
    ELSE IF Head(q) = "\n" THEN SplitLines(Tail(q), <<>>, Append(acc, Str(cur)))
    ELSE SplitLines(Tail(q), Append(cur, Head(q)), acc)
Split(v) == List(SplitLines(v[2], <<>>, <<>>))

\* ===================================================== DatabaseManager
\* One owner's data (integrate: the Firestore document users/<uid> and its
\* sub-collections; Optimization: the resumes row <resume_id> and the rows of
\* the section tables that carry its id):
\*   exists  the document / row is there
\*   main    name .. github, file_name, summary, optimized_summary
\*   stamp   lastUpdatedAt, the number of the request that wrote it last
\*   colls   per collection / table, the documents / rows in the order in
\*           which stream() / SELECT yields them
PersonalInfoKeys == <<"name", "email", "phone", "linkedin", "github">>
Collections ==
    <<"work_experiences", "education", "projects", "internships", "certifications",
      "skills", "additional_sections">>
\* _standard_to_db_collections_map / known_sections_map, in their order
SectionKeys == <<"work_experience", "education", "projects", "internships", "certifications">>
StandardToDb(standard_key) ==
    CASE standard_key = "work_experience" -> "work_experiences"
      [] OTHER -> standard_key
InCollectionsMap(standard_key) ==
    standard_key \in SeqToSet(SectionKeys) \cup {"skills", "additional_sections"}
\* the columns fetch_resume_relational copies from a row (Optimization)
IdentityColumns(standard_key) ==
    CASE standard_key \in {"work_experience", "internships"} -> <<"role", "company", "duration">>
      [] standard_key = "education" -> <<"institution", "degree", "duration">>
      [] standard_key = "projects" -> <<"title">>
      [] OTHER -> <<"name">>
\* the keys update_optimized_resume_relational matches on
MatchKeys(standard_key) ==
    CASE standard_key \in {"work_experience", "internships"} -> <<"role", "company">>
      [] standard_key = "education" -> <<"institution", "degree">>
      [] standard_key = "projects" -> <<"title">>
      [] OTHER -> <<"name">>

EmptyMain ==
    [name |-> None, email |-> None, phone |-> None, linkedin |-> None, github |-> None,
     file_name |-> None, summary |-> None, optimized_summary |-> None]
EmptyStore ==
    [exists |-> FALSE, main |-> EmptyMain, stamp |-> 0,
     colls |-> [c \in SeqToSet(Collections) |-> <<>>]]

\* _ai_key_to_standard_map (integrate) / mapping (Optimization)
AiKeyToStandard(variant) ==
    IF variant = "integrate"
    THEN << <<"personal_info", {"personal_info"}>>,
            <<"summary", {"summary"}>>,
            <<"work_experience",
              {"work_experience", "professional_experience", "experience", "work_history"}>>,
            <<"education", {"education", "academic_background"}>>,
            <<"projects", {"projects", "personal_projects"}>>,
            <<"internships", {"internships", "internship_experience"}>>,
            <<"certifications", {"certifications", "licenses_&_certifications"}>>,
            <<"skills", {"skills"}>> >>
    ELSE << <<"work_experience",
              {"work_experience", "professional_experience", "experience", "work_history"}>>,
            <<"education", {"education", "academic_background"}>>,
            <<"projects", {"projects", "personal_projects"}>>,
            <<"internships", {"internships", "internship_experience"}>>,
            <<"skills", {"skills", "technical_skills", "proficiencies"}>>,
            <<"certifications", {"certifications", "licenses_&_certifications"}>> >>

HyphensToUnderscores(s) == [i \in 1..Len(s) |-> IF s[i] = "-" THEN "_" ELSE s[i]]

\* _map_ai_section_to_standard_key(ai_key): <<"key", standard_key>> or None
MapAiSectionToStandardKey(ai_key, variant) ==
    LET normalized_key == HyphensToUnderscores(SpacesToUnderscores(Lower(Chars(ai_key))))
        table == AiKeyToStandard(variant)
        hits == {i \in 1..Len(table) : \E v \in table[i][2] : Chars(v) = normalized_key}
    IN IF hits = {} THEN None
       ELSE <<"key", table[CHOOSE i \in hits : \A j \in hits : i <= j][1]>>

\* ---------------------------------------------- fetch_resume_relational
\* {k: v for k, v in pairs if v}
DropFalsy(pairs) == LET Keep(p) == Truthy(p[2]) IN SelectSeq(pairs, Keep)

\* a read that takes the optimized column whenever the optimized view is asked
Mut_DescToUse(doc, get_optimized) ==
    IF get_optimized THEN DictGet(doc, "optimized_description")
    ELSE DictGet(doc, "description")

\* desc_to_use: the optimized text when asked for and truthy, else the original
DescToUse(doc, get_optimized) ==
    IF get_optimized /\ Truthy(DictGet(doc, "optimized_description"))
    THEN DictGet(doc, "optimized_description")
    ELSE DictGet(doc, "description")

\* the item built from one document / row
FetchItem(doc, standard_key, get_optimized, variant) ==
    LET desc_to_use == DescToUse(doc, get_optimized)
        Keep(p) == p[1] \notin {"optimized_description", "description"}
        columns == IdentityColumns(standard_key)
        item == IF variant = "integrate" THEN SelectSeq(doc[2], Keep)
                ELSE [i \in 1..Len(columns) |-> <<columns[i], DictGet(doc, columns[i])>>]
    IN IF Truthy(desc_to_use)
       THEN Dict(Append(item, <<"description",
                                IF IsStr(desc_to_use) THEN Split(desc_to_use) ELSE desc_to_use>>))
       ELSE Dict(item)

FetchSection(docs, standard_key, get_optimized, variant) ==
    List([i \in 1..Len(docs) |-> FetchItem(docs[i], standard_key, get_optimized, variant)])

\* skills_dict: category -> the skill names, in the order the rows come
RECURSIVE FetchSkills(_, _, _)
FetchSkills(docs, acc, variant) ==
    IF Len(docs) = 0 THEN acc
    ELSE LET category == DictGet(Head(docs), "category")
             skill_name == DictGet(Head(docs),
                                   IF variant = "integrate" THEN "skill_name" ELSE "description")
             key == KeyOf(PyStr(category))
             old == IF DictHas(acc, key) THEN DictGet(acc, key)[2] ELSE <<>>
         IN IF variant = "integrate" /\ ~(Truthy(category) /\ Truthy(skill_name))
            THEN FetchSkills(Tail(docs), acc, variant)
            ELSE FetchSkills(Tail(docs), DictPut(acc, key, List(Append(old, skill_name))), variant)

\* resume_data[section_name] = the lines of the section's description
RECURSIVE FetchAdditional(_, _, _)
FetchAdditional(docs, resume_data, get_optimized) ==
    IF Len(docs) = 0 THEN resume_data
    ELSE LET desc_to_use == DescToUse(Head(docs), get_optimized)
             section_name == DictGet(Head(docs), "section_name")
         IN IF Truthy(section_name) /\ Truthy(desc_to_use)
            THEN FetchAdditional(Tail(docs),
                    DictPut(resume_data, KeyOf(section_name[2]),
                            IF IsStr(desc_to_use) THEN Split(desc_to_use) ELSE desc_to_use),
                    get_optimized)
            ELSE FetchAdditional(Tail(docs), resume_data, get_optimized)

FetchPersonalInfo(main) ==
    Dict([i \in 1..Len(PersonalInfoKeys) |-> <<PersonalInfoKeys[i], main[PersonalInfoKeys[i]]>>])

FetchSummary(main, get_optimized) ==
    IF get_optimized /\ Truthy(main.optimized_summary)
    THEN main.optimized_summary
    ELSE main.summary

\* fetch_resume_relational(id, get_optimized): the record, or None
FetchResumeRelational(st, get_optimized, variant) ==
    IF ~st.exists THEN None
    ELSE LET personal_info == FetchPersonalInfo(st.main)
             head ==
                (IF variant = "integrate"
                       /\ ~\E i \in 1..Len(PersonalInfoKeys) : Truthy(st.main[PersonalInfoKeys[i]])
                 THEN <<>> ELSE << <<"personal_info", personal_info>> >>)
                \o << <<"summary", FetchSummary(st.main, get_optimized)>> >>
                \o (IF variant = "integrate" /\ Truthy(st.main.file_name)
                    THEN << <<"resume_metadata", Dict(<< <<"file_name", st.main.file_name>> >>)>> >>
                    ELSE <<>>)
             sections ==
                [i \in 1..Len(SectionKeys) |->
                    <<SectionKeys[i],
                      FetchSection(st.colls[StandardToDb(SectionKeys[i])], SectionKeys[i],
                                   get_optimized, variant)>>]
             skills == FetchSkills(st.colls["skills"], Dict(<<>>), variant)
             resume_data ==
                FetchAdditional(st.colls["additional_sections"],
                                Dict(head \o sections \o << <<"skills", skills>> >>),
                                get_optimized)
         IN Dict(DropFalsy(resume_data[2]))

\* --------------------------------------------- update_resume_relational
\* The method is a sequence of datastore writes, each committed on its own:
\*   <<"touch">>                 set({'lastUpdatedAt': ..}, merge=True)
\*   <<"delete", coll>>          doc.reference.delete() of a document of coll
\*   <<"update_main", fields>>   user_doc_ref.update(filtered_update_fields)
\*   <<"add", coll, doc>>        collection(coll).add(doc)
\*   <<"insert_main", fields>>   INSERT INTO resumes (Optimization)
\*   <<"set_optimized_summary", v>>
\*   <<"set_optimized_description", coll, i, v>>   on the i-th document of coll
\*   <<"touch_stamp">>           update({'lastUpdatedAt': ..})
\*   <<"raise">>                 the code itself raises here (no write)
SkippedKeys(variant) ==
    IF variant = "integrate" THEN {"personal_info", "summary", "skills", "resume_metadata"}
    ELSE {"personal_info", "summary", "skills"}

DeleteWrites(st) ==
    LET RECURSIVE Gather(_)
        Gather(i) ==
            IF i > Len(Collections) THEN <<>>
            ELSE [j \in 1..Len(st.colls[Collections[i]]) |-> <<"delete", Collections[i]>>]
                 \o Gather(i + 1)
    IN Gather(1)

\* the fields of update_fields whose value is not None
MainFields(file_name, parsed_data) ==
    LET p_info == IF DictHas(parsed_data, "personal_info")
                  THEN DictGet(parsed_data, "personal_info") ELSE Dict(<<>>)
        update_fields ==
            [i \in 1..Len(PersonalInfoKeys) |->
                <<PersonalInfoKeys[i], DictGet(p_info, PersonalInfoKeys[i])>>]
            \o << <<"file_name", file_name>>,
                  <<"summary", DictGet(parsed_data, "summary")>>,
                  <<"optimized_summary", None>> >>
        NotNone(p) == p[2] # None
    IN SelectSeq(update_fields, NotNone)

\* item.copy() with the description flattened and optimized_description None
ItemToSave(item) ==
    LET flat == IF DictHas(item, "description")
                THEN DictPut(item, "description",
                             StringifyListContent(DictGet(item, "description")))
                ELSE item
    IN DictPut(flat, "optimized_description", None)

SectionWrites(ai_section_key, section_content) ==
    LET standard_key == MapAiSectionToStandardKey(ai_section_key, "integrate")
    IN IF standard_key # None /\ InCollectionsMap(standard_key[2])
       THEN IF IsList(section_content)
            THEN LET IsItem(v) == IsDict(v)
                     items == SelectSeq(section_content[2], IsItem)
                 IN [i \in 1..Len(items) |->
                        <<"add", StandardToDb(standard_key[2]), ItemToSave(items[i])>>]
            ELSE <<>>
       ELSE << <<"add", "additional_sections",
                 Dict(<< <<"section_name", S(ai_section_key)>>,
                         <<"description", StringifyListContent(section_content)>>,
                         <<"optimized_description", None>> >>)>> >>

RECURSIVE AllSectionWrites(_, _)
AllSectionWrites(pairs, variant) ==
    IF Len(pairs) = 0 THEN <<>>
    ELSE (IF pairs[1][1] \in SkippedKeys(variant) THEN <<>>
          ELSE SectionWrites(pairs[1][1], pairs[1][2]))
         \o AllSectionWrites(Tail(pairs), variant)

RECURSIVE SkillWrites(_, _)
SkillWrites(pairs, nameField) ==
    IF Len(pairs) = 0 THEN <<>>
    ELSE (IF IsList(pairs[1][2])
          THEN [i \in 1..Len(pairs[1][2][2]) |->
                  <<"add", "skills",
                    Dict(<< <<"category", S(pairs[1][1])>>,
                            <<nameField, pairs[1][2][2][i]>> >>)>>]
          ELSE <<>>)
         \o SkillWrites(Tail(pairs), nameField)

AllSkillWrites(parsed_data, nameField) ==
    IF DictHas(parsed_data, "skills") /\ IsDict(DictGet(parsed_data, "skills"))
    THEN SkillWrites(DictGet(parsed_data, "skills")[2], nameField)
    ELSE <<>>

\* the writes of update_resume_relational, in program order; p_info.get raises
\* when personal_info is present and no mapping
UpdateWrites(st, file_name, parsed_data) ==
    << <<"touch">> >> \o DeleteWrites(st)
    \o (IF DictHas(parsed_data, "personal_info") /\ ~IsDict(DictGet(parsed_data, "personal_info"))
        THEN << <<"raise">> >>
        ELSE << <<"update_main", MainFields(file_name, parsed_data)>> >>
             \o AllSectionWrites(parsed_data[2], "integrate")
             \o AllSkillWrites(parsed_data, "skill_name"))

RECURSIVE SetMain(_, _)
SetMain(main, fields) ==
    IF Len(fields) = 0 THEN main
    ELSE SetMain([main EXCEPT ![fields[1][1]] = fields[1][2]], Tail(fields))

\* an update that overwrites the original text
Mut_SetOptimizedDescription(doc, optimized_desc) ==
    DictPut(doc, "description", optimized_desc)

\* doc.reference.update({'optimized_description': ..}) / UPDATE .. SET
\* optimized_description = %s
SetOptimizedDescription(doc, optimized_desc) ==
    DictPut(doc, "optimized_description", optimized_desc)

\* one write applied; atFront: the new document's random id sorts before the
\* ids of the documents already in the collection
ApplyWrite(st, w, now, atFront) ==
    CASE w[1] = "touch" -> [st EXCEPT !.exists = TRUE, !.stamp = now]
      [] w[1] = "delete" -> [st EXCEPT !.colls[w[2]] = Tail(@)]
      [] w[1] = "update_main" -> [st EXCEPT !.main = SetMain(@, w[2]), !.stamp = now]
      [] w[1] = "add" ->
            [st EXCEPT !.colls[w[2]] = IF atFront THEN <<w[3]>> \o @ ELSE Append(@, w[3])]
      [] w[1] = "insert_main" -> [st EXCEPT !.exists = TRUE, !.main = SetMain(EmptyMain, w[2])]
      [] w[1] = "set_optimized_summary" -> [st EXCEPT !.main.optimized_summary = w[2]]
      [] w[1] = "set_optimized_description" ->
            [st EXCEPT !.colls[w[2]][w[3]] = SetOptimizedDescription(@, w[4])]
      [] w[1] = "touch_stamp" -> [st EXCEPT !.stamp = now]
      [] OTHER -> st

RECURSIVE ApplyWrites(_, _, _, _)
ApplyWrites(st, ws, now, atFront) ==
    IF Len(ws) = 0 THEN st
    ELSE ApplyWrites(ApplyWrite(st, Head(ws), now, atFront), Tail(ws), now, atFront)

Raises(ws) == \E i \in 1..Len(ws) : ws[i][1] = "raise"
\* the writes before the first raise
RECURSIVE UntilRaise(_)
UntilRaise(ws) ==
    IF Len(ws) = 0 \/ Head(ws)[1] = "raise" THEN <<>>
    ELSE <<Head(ws)>> \o UntilRaise(Tail(ws))

\* update_resume_relational run to its end: the store after it and what it
\* returns (False when the code raised)
\* a handler that reports success whatever happened
Mut_ExceptReturn == TRUE

\* except Exception as e: print(..); return False
ExceptReturn == FALSE

UpdateResumeRelational(st, file_name, parsed_data, now, atFront) ==
    LET ws == UpdateWrites(st, file_name, parsed_data)
    IN [store |-> ApplyWrites(st, UntilRaise(ws), now, atFront),
        ret |-> IF Raises(ws) THEN ExceptReturn ELSE TRUE]

\* ------------------------------- save_resume_relational (Optimization)
\* the row inserted for an item: the table's columns the item has, the others
\* NULL
RowToSave(item, standard_key) ==
    LET columns == Append(IdentityColumns(standard_key), "description")
        flat == IF DictHas(item, "description")
                THEN DictPut(item, "description",
                             StringifyListContent(DictGet(item, "description")))
                ELSE item
    IN Dict([i \in 1..Len(columns) |-> <<columns[i], DictGet(flat, columns[i])>>]
            \o << <<"optimized_description", None>> >>)

\* known_sections_db_map has no entry for 'skills': a key that maps to it
\* raises KeyError
SaveSectionWrites(ai_section_key, section_content) ==
    LET standard_key == MapAiSectionToStandardKey(ai_section_key, "Optimization")
    IN IF standard_key # None
       THEN IF standard_key[2] \notin SeqToSet(SectionKeys) THEN << <<"raise">> >>
            ELSE IF ~IsList(section_content) THEN <<>>
            ELSE LET IsItem(v) == IsDict(v)
                     items == SelectSeq(section_content[2], IsItem)
                 IN [i \in 1..Len(items) |->
                        <<"add", StandardToDb(standard_key[2]),
                          RowToSave(items[i], standard_key[2])>>]
       ELSE << <<"add", "additional_sections",
                 Dict(<< <<"section_name", S(ai_section_key)>>,
                         <<"description", StringifyListContent(section_content)>>,
                         <<"optimized_description", None>> >>)>> >>

RECURSIVE AllSaveSectionWrites(_)
AllSaveSectionWrites(pairs) ==
    IF Len(pairs) = 0 THEN <<>>
    ELSE (IF pairs[1][1] \in SkippedKeys("Optimization") THEN <<>>
          ELSE SaveSectionWrites(pairs[1][1], pairs[1][2]))
         \o AllSaveSectionWrites(Tail(pairs))

SaveWrites(file_name, parsed_data) ==
    IF DictHas(parsed_data, "personal_info") /\ ~IsDict(DictGet(parsed_data, "personal_info"))
    THEN << <<"raise">> >>
    ELSE LET p_info == IF DictHas(parsed_data, "personal_info")
                       THEN DictGet(parsed_data, "personal_info") ELSE Dict(<<>>)
         IN << <<"insert_main",
                 [i \in 1..Len(PersonalInfoKeys) |->
                     <<PersonalInfoKeys[i], DictGet(p_info, PersonalInfoKeys[i])>>]
                 \o << <<"file_name", file_name>>,
                       <<"summary", DictGet(parsed_data, "summary")>> >> >> >>
            \o AllSaveSectionWrites(parsed_data[2])
            \o AllSkillWrites(parsed_data, "description")

\* save_resume_relational: everything is committed at the end, or nothing
SaveResumeRelational(st, file_name, parsed_data) ==
    LET ws == SaveWrites(file_name, parsed_data)
    IN IF Raises(ws) THEN [store |-> st, ret |-> FALSE]
       ELSE [store |-> ApplyWrites(st, ws, 0, FALSE), ret |-> TRUE]

\* a list or a dict is no SQL parameter: cursor.execute raises on it
SqlParam(v) == ~IsList(v) /\ ~IsDict(v)

\* ----------------------------------- update_optimized_resume_relational
\* the documents of docs that the query for item_to_match selects
\* integrate: a where() per match key the item has a truthy value for, then
\* limit(1); Optimization (update_many): nothing unless every match key has a
\* truthy value, then every row that equals the item on all of them
MatchedDocs(docs, item_to_match, match_keys, variant) ==
    LET given == {i \in 1..Len(match_keys) : Truthy(DictGet(item_to_match, match_keys[i]))}
        hits == {d \in 1..Len(docs) :
                    \A i \in given :
                        DictGet(docs[d], match_keys[i]) = DictGet(item_to_match, match_keys[i])}
    IN IF variant = "integrate"
       THEN IF hits = {} THEN {} ELSE {CHOOSE d \in hits : \A e \in hits : d <= e}
       ELSE IF given = 1..Len(match_keys) THEN hits ELSE {}

SetToSeq(ix) ==
    LET RECURSIVE Up(_)
        Up(rest) == IF rest = {} THEN <<>>
                    ELSE LET m == CHOOSE d \in rest : \A e \in rest : d <= e
                         IN <<m>> \o Up(rest \ {m})
    IN Up(ix)

ItemDescription(item_to_match) ==
    StringifyListContent(IF DictHas(item_to_match, "description")
                         THEN DictGet(item_to_match, "description") ELSE List(<<>>))

\* update_item_optimized_description / update_many for one merged item
ItemWrites(docs, coll, item_to_match, match_keys, variant) ==
    IF ~IsDict(item_to_match) THEN << <<"raise">> >>
    ELSE IF /\ variant = "Optimization"
            /\ \A i \in 1..Len(match_keys) : Truthy(DictGet(item_to_match, match_keys[i]))
            /\ \E i \in 1..Len(match_keys) : ~SqlParam(DictGet(item_to_match, match_keys[i]))
         THEN << <<"raise">> >>
    ELSE LET targets == SetToSeq(MatchedDocs(docs, item_to_match, match_keys, variant))
         IN [i \in 1..Len(targets) |->
                <<"set_optimized_description", coll, targets[i],
                  ItemDescription(item_to_match)>>]

\* "for item in items": what the loop visits when items is no list
ItemsIterated(items) ==
    CASE IsList(items) -> items[2]
      [] IsDict(items) -> [i \in 1..Len(items[2]) |-> S(items[2][i][1])]
      [] IsStr(items) -> [i \in 1..Len(items[2]) |-> S(items[2][i])]
      [] OTHER -> << <<"not iterable">> >>

RECURSIVE AllItemWrites(_, _, _, _, _)
AllItemWrites(docs, coll, items, match_keys, variant) ==
    IF Len(items) = 0 THEN <<>>
    ELSE ItemWrites(docs, coll, Head(items), match_keys, variant)
         \o AllItemWrites(docs, coll, Tail(items), match_keys, variant)

RECURSIVE OptimizedSectionWrites(_, _, _, _)
OptimizedSectionWrites(st, optimized_data, i, variant) ==
    IF i > Len(SectionKeys) THEN <<>>
    ELSE (IF DictHas(optimized_data, SectionKeys[i])
          THEN AllItemWrites(st.colls[StandardToDb(SectionKeys[i])],
                             StandardToDb(SectionKeys[i]),
                             ItemsIterated(DictGet(optimized_data, SectionKeys[i])),
                             MatchKeys(SectionKeys[i]), variant)
          ELSE <<>>)
         \o OptimizedSectionWrites(st, optimized_data, i + 1, variant)

\* the additional sections: the document(s) whose section_name is the key
RECURSIVE OptimizedAdditionalWrites(_, _, _)
OptimizedAdditionalWrites(st, pairs, variant) ==
    IF Len(pairs) = 0 THEN <<>>
    ELSE LET key == pairs[1][1]
             docs == st.colls["additional_sections"]
             hits == {d \in 1..Len(docs) : DictGet(docs[d], "section_name") = S(key)}
             targets == SetToSeq(IF variant = "integrate" /\ hits # {}
                                 THEN {CHOOSE d \in hits : \A e \in hits : d <= e}
                                 ELSE hits)
         IN (IF MapAiSectionToStandardKey(key, variant) = None /\ key \notin SkippedKeys(variant)
             THEN [i \in 1..Len(targets) |->
                     <<"set_optimized_description", "additional_sections", targets[i],
                       StringifyListContent(pairs[1][2])>>]
             ELSE <<>>)
            \o OptimizedAdditionalWrites(st, Tail(pairs), variant)

UpdateOptimizedWrites(st, optimized_data, variant) ==
    IF ~IsDict(optimized_data) THEN << <<"raise">> >>
    ELSE (IF DictHas(optimized_data, "summary")
          THEN IF variant = "Optimization" /\ ~SqlParam(DictGet(optimized_data, "summary"))
               THEN << <<"raise">> >>
               ELSE << <<"set_optimized_summary", DictGet(optimized_data, "summary")>> >>
          ELSE <<>>)
         \o OptimizedSectionWrites(st, optimized_data, 1, variant)
         \o OptimizedAdditionalWrites(st, optimized_data[2], variant)
         \o (IF variant = "integrate" THEN << <<"touch_stamp">> >> ELSE <<>>)

\* integrate: each write is committed on its own, so the writes before a raise
\* stay; Optimization: one commit at the end, none when the code raised
UpdateOptimizedResumeRelational(st, optimized_data, now, variant) ==
    LET ws == UpdateOptimizedWrites(st, optimized_data, variant)
    IN [store |-> IF variant = "integrate" THEN ApplyWrites(st, UntilRaise(ws), now, FALSE)
                  ELSE IF Raises(ws) THEN st
                  ELSE ApplyWrites(st, ws, now, FALSE),
        raised |-> Raises(ws)]

\* ------------------------------------------------------------ SpecMerge
\* records as fetch_resume_relational returns them, model outputs and edit
\* requests
ItemX == Dict(<< <<"title", S("X")>>, <<"description", List(<<S("built a tool")>>)>> >>)
JobA ==
    Dict(<< <<"role", S("dev")>>, <<"company", S("acme")>>,
            <<"description", List(<<S("wrote code"), S("fixed bugs")>>)>> >>)
RecSpec ==
    Dict(<< <<"projects",
              List(<<Dict(<< <<"title", S("X")>>,
                             <<"description", S("built a tool")>> >>)>>)>> >>)
RecFull ==
    Dict(<< <<"personal_info", Dict(<< <<"name", S("Ann")>>, <<"email", S("ann@x")>> >>)>>,
            <<"summary", S("s1")>>,
            <<"work_experience", List(<<JobA>>)>>,
            <<"projects", List(<<ItemX>>)>> >>)
RecSmall ==
    Dict(<< <<"summary", S("s1")>>,
            <<"skills", Dict(<< <<"Languages", List(<<S("Python")>>)>> >>)>> >>)
Records == {RecSpec, RecFull, RecSmall}

ValItem ==
    Dict(<< <<"title", S("X")>>,
            <<"description", S("Built a tool reducing manual effort by 30%")>> >>)
ValList ==
    List(<<Dict(<< <<"title", S("X")>>,
                   <<"description", List(<<S("Built a tool reducing manual effort by 30%")>>)>> >>)>>)
ValPartial ==
    Dict(<< <<"summary", S("S2")>>,
            <<"personal_info", Dict(<< <<"name", S("Eve")>> >>)>> >>)
ValNew ==
    Dict(<< <<"projects", List(<<Dict(<< <<"title", S("Y")>> >>)>>)>>,
            <<"hobbies", List(<<S("chess")>>)>> >>)
ModelValues == {ValItem, ValList, ValPartial, ValNew, S("Better summary"), List(<<>>)}

ModelOutcomes ==
    {<<"raise">>}
    \cup {<<"text", Dumps(v)>> : v \in ModelValues}
    \cup { <<"text", FenceOpen \o <<"\n">> \o Dumps(ValPartial) \o <<"\n">> \o FenceClose>>,
           <<"text", <<"Here", " ", "it", " ", "is", ":", " ">> \o Dumps(ValItem)>>,
           <<"text", <<"Sorry", " ", "no">>>>,
           <<"text", Repeat("[", RecursionLimit + 1)>> }

ReqProjects == Chars("projects") \o <<":", " ", "quantify", " ", "impact">>
ReqSummary == Chars("summary")
ReqWhole == <<>>
ReqFree == <<"fix", " ", "formatting">>
ReqUnknown == <<"z", "z", "z", ":", " ", "x">>
ReqWorkExp == <<"W", "o", "r", "k", " ", "e", "x", "p", ":", " ", "tighten">>
ReqS == <<"s">>
Requests == {ReqProjects, ReqSummary, ReqWhole, ReqFree, ReqUnknown, ReqWorkExp, ReqS}

MergeInit ==
    /\ JsonIdle
    /\ StoreIdle
    /\ UpdateIdle
    /\ UploadIdle
    /\ PureIdle
    /\ FlowIdle
    /\ mpc = "call"
    /\ mvariant \in Variants
    /\ resume_json \in Records
    /\ user_input \in Requests
    /\ outcome \in ModelOutcomes
    /\ keyOrder \in KeysPresent(resume_json, mvariant)
    /\ mresult = None

CallOptimizeResumeJson ==
    /\ mpc = "call"
    /\ mresult' = OptimizeResumeJson(resume_json, user_input, outcome, keyOrder, mvariant)
    /\ mpc' = "done"
    /\ UNCHANGED <<mvariant, resume_json, user_input, outcome, keyOrder, varsJson, varsStore, varsUpdate, varsUpload, varsPure, varsFlow>>

MergeNext == CallOptimizeResumeJson

SpecMerge == MergeInit /\ [][MergeNext]_vars

\* the request names a section that resolves to a key, and the model's output
\* parses to a usable (truthy) value
Targeted == Truthy(SectionReq(user_input)) /\ MappedKey(user_input, keyOrder) # None
WholeRecord == ~Truthy(SectionReq(user_input))
Usable ==
    /\ LoadModelOutput(outcome, mvariant)[1] = "return"
    /\ Truthy(LoadModelOutput(outcome, mvariant)[2])
ModelValue == LoadModelOutput(outcome, mvariant)[2]

\* C5: a targeted optimization replaces record[k] wholly by the parsed model
\* output and leaves every other top-level key as it was in the input record.
C5_TargetedReplace ==
    (mpc = "done" /\ Targeted /\ Usable) =>
        LET k == MappedKey(user_input, keyOrder)[2]
        IN /\ IsDict(mresult)
           /\ DictKeys(mresult) = DictKeys(resume_json)
           /\ DictGet(mresult, k) = ModelValue
           /\ \A key \in SeqToSet(DictKeys(resume_json)) \ {k} :
                 DictGet(mresult, key) = DictGet(resume_json, key)

C5_Witness ==
    /\ mpc = "done" /\ Targeted /\ Usable
    /\ Len(DictKeys(resume_json)) > 1
    /\ mresult # resume_json

\* what the whole-record merge rule requires of result[key], given old and new
MergedAsSpecified(res, old, hasOld, new) ==
    IF hasOld /\ IsDict(old) /\ IsDict(new)
    THEN /\ IsDict(res)
         /\ \A k2 \in SeqToSet(DictKeys(new)) : DictGet(res, k2) = DictGet(new, k2)
         /\ \A k2 \in SeqToSet(DictKeys(old)) \ SeqToSet(DictKeys(new)) :
               DictHas(res, k2) /\ DictGet(res, k2) = DictGet(old, k2)
    ELSE res = new

WholeRecordMerged ==
    /\ IsDict(mresult)
    /\ \A key \in SeqToSet(DictKeys(ModelValue)) :
          /\ DictHas(mresult, key)
          /\ MergedAsSpecified(DictGet(mresult, key), DictGet(resume_json, key),
                               DictHas(resume_json, key), DictGet(ModelValue, key))
    /\ \A key \in SeqToSet(DictKeys(resume_json)) \ SeqToSet(DictKeys(ModelValue)) :
          DictHas(mresult, key) /\ DictGet(mresult, key) = DictGet(resume_json, key)

\* C6: in whole-record optimization, in both variants, mappings are merged key
\* by key (new wins, old keys kept), sequences and scalars are replaced, and
\* keys the model's record lacks are preserved.
C6_WholeRecordMerge ==
    (mpc = "done" /\ WholeRecord /\ Usable /\ IsDict(ModelValue)) => WholeRecordMerged

\* C8: for the record {"projects":[{"title":"X","description":"built a tool"}]},
\* the request "projects: quantify impact" and the model output
\* {"title":"X","description":"Built a tool reducing manual effort by 30%"},
\* the result still has projects as a sequence whose first element has title
\* "X" and the model's text as its description.
C8_EndToEndTargeted ==
    (/\ mpc = "done"
     /\ resume_json = RecSpec
     /\ user_input = ReqProjects
     /\ outcome = <<"text", Dumps(ValItem)>>) =>
        LET projects == DictGet(mresult, "projects")
        IN /\ IsList(projects)
           /\ Len(projects[2]) >= 1
           /\ DictGet(projects[2][1], "title") = S("X")
           /\ DictGet(projects[2][1], "description") = DictGet(ValItem, "description")

\* C21: the keys handed to _best_section_key come in a stable order: for a
\* fixed record and request every run of optimize_resume_json chooses the
\* section this run chose, also when several keys accept the target.
C21_StableKeyOrder ==
    (mpc = "done" /\ Targeted) =>
        \A keys \in KeysPresent(resume_json, mvariant) :
            MappedKey(user_input, keys) = MappedKey(user_input, keyOrder)

\* ------------------------------------------------------------ SpecStore
\* what get_resume_structure (plus the categorized skills) hands to the store
JobB ==
    Dict(<< <<"role", S("dev")>>, <<"company", S("beta")>>,
            <<"description", List(<<S("led team")>>)>> >>)
UploadFull ==
    Dict(<< <<"personal_info",
              Dict(<< <<"name", S("Ann")>>, <<"email", S("ann@x")>>, <<"phone", S("555")>> >>)>>,
            <<"summary", S("s1")>>,
            <<"work_experience", List(<<JobA, JobB>>)>>,
            <<"projects", List(<<ItemX>>)>>,
            <<"Achievements", List(<<S("won prize")>>)>>,
            <<"skills", Dict(<< <<"Languages", List(<<S("Python")>>)>> >>)>> >>)
UploadSparse ==
    Dict(<< <<"personal_info", Dict(<< <<"name", S("Bob")>> >>)>>,
            <<"projects",
              List(<<Dict(<< <<"title", S("Y")>>, <<"description", S("one line")>> >>)>>)>> >>)
UploadBadInfo ==
    Dict(<< <<"personal_info", S("Ann")>>, <<"summary", S("s3")>> >>)
UploadRecords == {UploadFull, UploadSparse, UploadBadInfo}
FileNames == {S("cv.pdf")}

\* model outputs: a faithful rewrite, one that renames what it was told to
\* keep, one whose items lack identity fields, section-shaped and item-shaped
\* answers to a targeted request, prose, and a failed call
OutFaithful ==
    Dict(<< <<"summary", S("S2")>>,
            <<"work_experience",
              List(<<Dict(<< <<"role", S("dev")>>, <<"company", S("acme")>>,
                             <<"description", List(<<S("Engineered code")>>)>> >>)>>)>>,
            <<"projects", ValList>> >>)
OutRenamed ==
    Dict(<< <<"personal_info", Dict(<< <<"name", S("Eve")>> >>)>>,
            <<"projects",
              List(<<Dict(<< <<"title", S("Z")>>, <<"description", List(<<S("New")>>)>> >>)>>)>> >>)
OutNoIdentity ==
    Dict(<< <<"projects", List(<<Dict(<< <<"description", List(<<S("Orphan")>>)>> >>)>>)>>,
            <<"work_experience",
              List(<<Dict(<< <<"company", S("beta")>>,
                             <<"description", List(<<S("Partial")>>)>> >>)>>)>> >>)
\* the optimize calls: an edit request and what the model answers to it
StoreCalls ==
    {<<ReqWhole, <<"raise">>>>}
    \cup {<<ReqWhole, <<"text", Dumps(v)>>>> : v \in {OutFaithful, OutRenamed, OutNoIdentity}}
    \cup {<<ReqProjects, <<"text", Dumps(v)>>>> : v \in {ValList, ValItem}}
    \cup {<<ReqSummary, <<"text", Dumps(S("Better summary"))>>>>}
    \cup {<<ReqWhole, <<"text", <<"Sorry", " ", "no">>>>>>,
          <<ReqUnknown, <<"text", Dumps(ValList)>>>>}

\* the datastore outlives the server: it starts empty or holding an upload
StoreInit ==
    /\ JsonIdle
    /\ MergeIdle
    /\ UpdateIdle
    /\ UploadIdle
    /\ PureIdle
    /\ FlowIdle
    /\ svariant \in Variants
    /\ \/ store = EmptyStore
       \/ \E parsed_data \in UploadRecords, file_name \in FileNames, atFront \in BOOLEAN :
            store = IF svariant = "integrate"
                    THEN UpdateResumeRelational(EmptyStore, file_name, parsed_data, 0, atFront).store
                    ELSE SaveResumeRelational(EmptyStore, file_name, parsed_data).store
    /\ lastOp = NoOp
    /\ nreq = 0

\* POST /upload as far as the datastore goes: update_resume_relational
\* (integrate, the owner's document) or save_resume_relational (Optimization,
\* a row under a new id)
UploadResume(file_name, parsed_data, atFront) ==
    /\ nreq < MaxRequests
    /\ svariant = "Optimization" => ~store.exists
    /\ LET r == IF svariant = "integrate"
                THEN UpdateResumeRelational(store, file_name, parsed_data, nreq + 1, atFront)
                ELSE SaveResumeRelational(store, file_name, parsed_data)
       IN /\ store' = r.store
          /\ lastOp' = [op |-> "upload", arg |-> parsed_data,
                        merged |-> None, ret |-> <<"bool", r.ret>>]
    /\ nreq' = nreq + 1
    /\ UNCHANGED <<svariant, varsJson, varsMerge, varsUpdate, varsUpload, varsPure, varsFlow>>

\* the orders in which optimize_resume_json may meet the fetched record's keys
\* (only a request that names a section looks at them)
KeyOrders(st, user_request, variant) ==
    LET resume_to_optimize == FetchResumeRelational(st, FALSE, variant)
    IN IF Truthy(resume_to_optimize) /\ Truthy(SectionReq(user_request))
       THEN KeysPresent(resume_to_optimize, variant)
       ELSE {<<>>}

\* POST /optimize: fetch the original view, optimize_resume_json, persist
OptimizeResume(user_request, outcome_, keys) ==
    /\ nreq < MaxRequests
    /\ LET resume_to_optimize == FetchResumeRelational(store, FALSE, svariant)
       IN IF ~Truthy(resume_to_optimize)
          THEN /\ store' = store
               /\ lastOp' = [op |-> "optimize", arg |-> <<user_request, outcome_>>,
                             merged |-> None, ret |-> Num(500)]
          ELSE /\ LET optimized_data ==
                        OptimizeResumeJson(resume_to_optimize, user_request, outcome_, keys,
                                           svariant)
                      r == UpdateOptimizedResumeRelational(store, optimized_data, nreq + 1,
                                                           svariant)
                  IN /\ store' = r.store
                     /\ lastOp' = [op |-> "optimize", arg |-> <<user_request, outcome_>>,
                                   merged |-> optimized_data,
                                   ret |-> Num(IF r.raised THEN 500 ELSE 200)]
    /\ nreq' = nreq + 1
    /\ UNCHANGED <<svariant, varsJson, varsMerge, varsUpdate, varsUpload, varsPure, varsFlow>>

\* GET /{uid}, GET /download/{uid} (optimized view) and the original view the
\* other handlers read
FetchResume(get_optimized) ==
    /\ nreq < MaxRequests
    /\ lastOp' = [op |-> "fetch", arg |-> <<"bool", get_optimized>>, merged |-> None,
                  ret |-> FetchResumeRelational(store, get_optimized, svariant)]
    /\ nreq' = nreq + 1
    /\ UNCHANGED <<svariant, store, varsJson, varsMerge, varsUpdate, varsUpload, varsPure, varsFlow>>

StoreNext ==
    \/ \E file_name \in FileNames, parsed_data \in UploadRecords, atFront \in BOOLEAN :
          UploadResume(file_name, parsed_data, atFront)
    \/ \E call \in StoreCalls :
          \E keys \in KeyOrders(store, call[1], svariant) :
             OptimizeResume(call[1], call[2], keys)
    \/ \E get_optimized \in BOOLEAN : FetchResume(get_optimized)

SpecStore == StoreInit /\ [][StoreNext]_vars

\* what the optimization pipeline has no business writing: everything but the
\* optimized columns and the timestamp
WithoutOptimized(doc) ==
    LET Keep(p) == p[1] # "optimized_description" IN Dict(SelectSeq(doc[2], Keep))
Originals(st) ==
    [exists |-> st.exists,
     main |-> [st.main EXCEPT !.optimized_summary = None],
     colls |-> [c \in DOMAIN st.colls |->
                  [d \in 1..Len(st.colls[c]) |-> WithoutOptimized(st.colls[c][d])]]]

\* C2: an optimize request changes no identity field, no original description,
\* no personal_info field and not the original summary; it writes only
\* optimized_description, optimized_summary and the timestamp.
C2_OnlyOptimizedWritten ==
    [][lastOp'.op = "optimize" => Originals(store') = Originals(store)]_vars

C2_Witness ==
    /\ lastOp.op = "optimize"
    /\ lastOp.ret = Num(200)
    /\ store.main.optimized_summary # None
    /\ \E d \in 1..Len(store.colls["work_experiences"]) :
          Truthy(DictGet(store.colls["work_experiences"][d], "optimized_description"))

\* the view of a stored text that a read is to return
Wanted(original, optimized, get_optimized) ==
    IF get_optimized /\ Truthy(optimized) THEN optimized ELSE original
Lines(text) == IF IsStr(text) THEN Split(text) ELSE text
ItemRead(item, doc, get_optimized) ==
    LET want == Wanted(DictGet(doc, "description"), DictGet(doc, "optimized_description"),
                       get_optimized)
    IN /\ IsDict(item)
       /\ Truthy(want) => DictGet(item, "description") = Lines(want)

\* C3: a read returns, for the summary and for each stored item, the optimized
\* variant when one is stored, non-empty and asked for, and the original
\* otherwise; it never fails and never omits an item or its section because
\* the optimized variant is absent.
C3_FetchFallback ==
    (lastOp.op = "fetch" /\ store.exists) =>
        LET get_optimized == lastOp.arg[2]
            r == lastOp.ret
            summary == Wanted(store.main.summary, store.main.optimized_summary, get_optimized)
        IN /\ IsDict(r)
           /\ Truthy(summary) => DictGet(r, "summary") = summary
           /\ \A i \in 1..Len(SectionKeys) :
                 LET docs == store.colls[StandardToDb(SectionKeys[i])]
                     items == DictGet(r, SectionKeys[i])
                 IN Len(docs) > 0 =>
                       /\ IsList(items)
                       /\ Len(items[2]) = Len(docs)
                       /\ \A d \in 1..Len(docs) : ItemRead(items[2][d], docs[d], get_optimized)
           /\ \A d \in 1..Len(store.colls["additional_sections"]) :
                 LET doc == store.colls["additional_sections"][d]
                     want == Wanted(DictGet(doc, "description"),
                                    DictGet(doc, "optimized_description"), get_optimized)
                 IN Truthy(want) => DictGet(r, KeyOf(DictGet(doc, "section_name")[2])) = Lines(want)

C3_Witness ==
    /\ lastOp.op = "fetch"
    /\ lastOp.arg = <<"bool", TRUE>>
    /\ \E d, e \in 1..Len(store.colls["work_experiences"]) :
          /\ Truthy(DictGet(store.colls["work_experiences"][d], "optimized_description"))
          /\ ~Truthy(DictGet(store.colls["work_experiences"][e], "optimized_description"))
          /\ Truthy(DictGet(store.colls["work_experiences"][e], "description"))

\* C4: after an upload for an owner who already has a record returns True, a
\* read in either view returns only content of the new record: what is read
\* is what would be read had the file been uploaded for a new owner.
C4_ReplacedWholesale ==
    (svariant = "integrate" /\ lastOp.op = "upload" /\ lastOp.ret = <<"bool", TRUE>>) =>
        \A get_optimized \in BOOLEAN :
           \E file_name \in FileNames, atFront \in BOOLEAN :
              FetchResumeRelational(store, get_optimized, svariant)
                 = FetchResumeRelational(
                      UpdateResumeRelational(EmptyStore, file_name, lastOp.arg, 0, atFront).store,
                      get_optimized, svariant)

\* the merged item carries the identity fields of its section and the stored
\* item equals it on them
SameIdentity(item, doc, match_keys) ==
    /\ IsDict(item)
    /\ \A k \in 1..Len(match_keys) :
          /\ DictHas(item, match_keys[k])
          /\ DictGet(item, match_keys[k]) = DictGet(doc, match_keys[k])

\* C7: propagating a merged record updates only the optimized_description of
\* stored items whose identity fields equal those of a merged item of the
\* same section; a merged item that matches no stored item (or carries no
\* identity fields) changes nothing, and no item is inserted or deleted.
C7_MatchThenUpdate ==
    [][(lastOp'.op = "optimize" /\ IsDict(lastOp'.merged)) =>
          /\ \A c \in DOMAIN store.colls : Len(store'.colls[c]) = Len(store.colls[c])
          /\ \A i \in 1..Len(SectionKeys) :
                LET c == StandardToDb(SectionKeys[i])
                    items == DictGet(lastOp'.merged, SectionKeys[i])
                IN \A d \in 1..Len(store.colls[c]) :
                      store'.colls[c][d] # store.colls[c][d] =>
                         /\ WithoutOptimized(store'.colls[c][d]) = WithoutOptimized(store.colls[c][d])
                         /\ IsList(items)
                         /\ \E j \in 1..Len(items[2]) :
                               SameIdentity(items[2][j], store.colls[c][d],
                                            MatchKeys(SectionKeys[i]))]_vars

\* the optimize request got no usable model output: the call failed, its text
\* does not parse to a usable value, or the section asked for is not there
NoUsableOutput(call, st, variant) ==
    \/ LoadModelOutput(call[2], variant)[1] = "raise"
    \/ ~Truthy(LoadModelOutput(call[2], variant)[2])
    \/ /\ Truthy(SectionReq(call[1]))
       /\ MappedKey(call[1], DictKeys(FetchResumeRelational(st, FALSE, variant))) = None
OptimizedVariants(st) ==
    [summary |-> st.main.optimized_summary,
     colls |-> [c \in DOMAIN st.colls |->
                  [d \in 1..Len(st.colls[c]) |-> DictGet(st.colls[c][d], "optimized_description")]]]

\* C11: when the model call of an optimize request raises, the request is
\* answered with a service error, not with "Optimization successful".
C11_ModelFailureSurfaced ==
    (lastOp.op = "optimize" /\ lastOp.arg[2] = <<"raise">>) => lastOp.ret # Num(200)

\* C12: an optimize request that obtains no usable model output changes no
\* persisted optimized_summary and no optimized_description, those written by
\* earlier optimize requests included.
C12_NoChangeFallback ==
    [][(/\ lastOp'.op = "optimize"
        /\ store.exists
        /\ NoUsableOutput(lastOp'.arg, store, svariant)) =>
          OptimizedVariants(store') = OptimizedVariants(store)]_vars

\* C13: a missing datastore record is reported to the caller as not found
\* (HTTP 404), not as a generic internal error.
C13_NotFoundReported ==
    (lastOp.op = "optimize" /\ ~store.exists) => lastOp.ret = Num(404)

\* C29: a successful optimize request that names one section leaves the
\* optimized content of every other section in place: a section whose
\* optimized view differed from its original before the request reads the
\* same in the optimized view after it.
OptimizedView(st) == FetchResumeRelational(st, TRUE, svariant)
OriginalView(st) == FetchResumeRelational(st, FALSE, svariant)
C29_OtherSectionsKept ==
    [][(/\ lastOp'.op = "optimize"
        /\ lastOp'.ret = Num(200)
        /\ store.exists
        /\ Truthy(SectionReq(lastOp'.arg[1]))
        /\ MappedKey(lastOp'.arg[1], DictKeys(OriginalView(store))) # None) =>
          \A k \in SeqToSet(DictKeys(OptimizedView(store))) :
             (/\ k # MappedKey(lastOp'.arg[1], DictKeys(OriginalView(store)))[2]
              /\ DictGet(OptimizedView(store), k) # DictGet(OriginalView(store), k))
               => /\ DictHas(OptimizedView(store'), k)
                  /\ DictGet(OptimizedView(store'), k) = DictGet(OptimizedView(store), k)]_vars

\* ----------------------------------------------------------- SpecUpdate
\* update_resume_relational taken one datastore write at a time; any write
\* may fail (the datastore is reached over the network), and the code's
\* except clause turns the failure into the return value
UploadExtended ==
    Dict(<< <<"personal_info", Dict(<< <<"name", S("Bob")>> >>)>>,
            <<"projects",
              List(<<Dict(<< <<"title", S("Y")>>, <<"description", S("one line")>> >>),
                     Dict(<< <<"title", S("Z")>>, <<"description", S("more")>> >>)>>)>> >>)
UpdateRecords == UploadRecords \cup {UploadExtended}

UpdateInit ==
    /\ JsonIdle
    /\ MergeIdle
    /\ StoreIdle
    /\ UploadIdle
    /\ PureIdle
    /\ FlowIdle
    /\ \E before \in UploadRecords, parsed_data \in UpdateRecords,
          file_name \in FileNames, atFront \in BOOLEAN :
          LET old == UpdateResumeRelational(EmptyStore, file_name, before, 0, atFront).store
          IN upd = [pc |-> "run", old |-> old, parsed_data |-> parsed_data, atFront |-> atFront,
                    store |-> old, writes |-> UpdateWrites(old, file_name, parsed_data),
                    ret |-> None, failed |-> FALSE]

\* the next write reaches the datastore
UpdateWrite ==
    /\ upd.pc = "run"
    /\ Len(upd.writes) > 0
    /\ Head(upd.writes)[1] # "raise"
    /\ upd' = [upd EXCEPT !.store = ApplyWrite(@, Head(upd.writes), 1, upd.atFront),
                          !.writes = Tail(@)]
    /\ UNCHANGED <<varsJson, varsMerge, varsStore, varsUpload, varsPure, varsFlow>>

\* the next write fails, or the code itself raises there: the except clause
UpdateFails ==
    /\ upd.pc = "run"
    /\ Len(upd.writes) > 0
    /\ upd' = [upd EXCEPT !.pc = "done", !.ret = <<"bool", ExceptReturn>>, !.failed = TRUE]
    /\ UNCHANGED <<varsJson, varsMerge, varsStore, varsUpload, varsPure, varsFlow>>

\* return True
UpdateReturns ==
    /\ upd.pc = "run"
    /\ Len(upd.writes) = 0
    /\ upd' = [upd EXCEPT !.pc = "done", !.ret = <<"bool", TRUE>>]
    /\ UNCHANGED <<varsJson, varsMerge, varsStore, varsUpload, varsPure, varsFlow>>

UpdateNext == UpdateWrite \/ UpdateFails \/ UpdateReturns

SpecUpdate == UpdateInit /\ [][UpdateNext]_vars

\* the old record had items, they have been cleared, and a new item is still
\* to be inserted
Cleared ==
    /\ \E c \in DOMAIN upd.old.colls : Len(upd.old.colls[c]) > 0
    /\ \A i \in 1..Len(upd.writes) : upd.writes[i][1] \notin {"touch", "delete"}
ItemsPending == \E i \in 1..Len(upd.writes) : upd.writes[i][1] = "add"
FailedMidway == upd.pc = "done" /\ upd.failed /\ Cleared /\ ItemsPending
\* what a read of the owner's data gives
Content(st) == [main |-> st.main, colls |-> st.colls]
CompleteNew ==
    ApplyWrites(upd.old,
                UntilRaise(UpdateWrites(upd.old, CHOOSE f \in FileNames : TRUE, upd.parsed_data)),
                1, upd.atFront)
\* q is a contiguous part of p
PartOf(q, p) ==
    \E a \in 0..Len(p) : a + Len(q) <= Len(p) /\ q = SubSeq(p, a + 1, a + Len(q))

Uploaders == {"u1", "u2"}
UploadNames == {"cv.pdf", "my.pdf"}
FileBytes(r) == <<"resume of", r>>
NoBytes == <<>>

UploadInit ==
    /\ JsonIdle
    /\ MergeIdle
    /\ StoreIdle
    /\ UpdateIdle
    /\ PureIdle
    /\ FlowIdle
    /\ reqs \in [Uploaders -> {[pc |-> "open", filename |-> n, handle |-> 0,
                               tmp_file_path |-> FALSE, resume_text |-> NoBytes, response |-> 0]
                              : n \in UploadNames}]
    /\ fs = [paths |-> [n \in UploadNames |-> 0], data |-> <<>>]
    /\ persisted = [r \in Uploaders |-> NoBytes]

\* open(file_location, "wb+"): truncates the file the path names, or creates it
OpenFile(r) ==
    LET file_location == reqs[r].filename
    IN /\ reqs[r].pc = "open"
       /\ IF fs.paths[file_location] # 0
          THEN /\ fs' = [fs EXCEPT !.data[fs.paths[file_location]] = NoBytes]
               /\ reqs' = [reqs EXCEPT ![r].pc = "write", ![r].handle = fs.paths[file_location]]
          ELSE /\ fs' = [fs EXCEPT !.data = Append(@, NoBytes),
                                   !.paths[file_location] = Len(fs.data) + 1]
               /\ reqs' = [reqs EXCEPT ![r].pc = "write", ![r].handle = Len(fs.data) + 1]
       /\ UNCHANGED <<persisted, varsJson, varsMerge, varsStore, varsUpdate, varsPure, varsFlow>>

\* file_object.write(await file.read()), the file closed; tmp_file_path is set
WriteFile(r) ==
    /\ reqs[r].pc = "write"
    /\ fs' = [fs EXCEPT !.data[reqs[r].handle] = FileBytes(r)]
    /\ reqs' = [reqs EXCEPT ![r].pc = "extract", ![r].tmp_file_path = TRUE]
    /\ UNCHANGED <<persisted, varsJson, varsMerge, varsStore, varsUpdate, varsPure, varsFlow>>

\* extract_text_auto(tmp_file_path): None when the path is gone or the file
\* cannot be read as a document; "if not resume_text" raises, and the except
\* clause answers 500
ExtractText(r) ==
    LET path == reqs[r].filename
        resume_text == IF fs.paths[path] = 0 THEN NoBytes ELSE fs.data[fs.paths[path]]
    IN /\ reqs[r].pc = "extract"
       /\ reqs' = IF resume_text = NoBytes
                  THEN [reqs EXCEPT ![r].pc = "finally", ![r].response = 500]
                  ELSE [reqs EXCEPT ![r].pc = "save", ![r].resume_text = resume_text]
       /\ UNCHANGED <<fs, persisted, varsJson, varsMerge, varsStore, varsUpdate, varsPure, varsFlow>>

\* get_resume_structure, categorize_skills_from_text, update_resume_relational
\* for the request's own user, and the JSONResponse
SaveResume(r) ==
    /\ reqs[r].pc = "save"
    /\ persisted' = [persisted EXCEPT ![r] = reqs[r].resume_text]
    /\ reqs' = [reqs EXCEPT ![r].pc = "finally", ![r].response = 200]
    /\ UNCHANGED <<fs, varsJson, varsMerge, varsStore, varsUpdate, varsPure, varsFlow>>

\* finally: if tmp_file_path and os.path.exists(tmp_file_path): os.remove(..)
RemoveFile(r) ==
    /\ reqs[r].pc = "finally"
    /\ fs' = IF reqs[r].tmp_file_path /\ fs.paths[reqs[r].filename] # 0
             THEN [fs EXCEPT !.paths[reqs[r].filename] = 0]
             ELSE fs
    /\ reqs' = [reqs EXCEPT ![r].pc = "done"]
    /\ UNCHANGED <<persisted, varsJson, varsMerge, varsStore, varsUpdate, varsPure, varsFlow>>

UploadNext ==
    \E r \in Uploaders :
       \/ OpenFile(r)
       \/ WriteFile(r)
       \/ ExtractText(r)
       \/ SaveResume(r)
       \/ RemoveFile(r)

SpecUpload == UploadInit /\ [][UploadNext]_vars

\* C9: under any interleaving of two uploads, each request's response and the
\* record persisted for its user are what they are when the request runs
\* alone: it is answered 200 and its user's record is that of its own file.
C9_UploadsIndependent ==
    \A r \in Uploaders :
       reqs[r].pc = "done" => reqs[r].response = 200 /\ persisted[r] = FileBytes(r)

\* ------------------------------------------------------------- SpecFlow
\* POST /upload for one file: extract_text_auto, get_resume_structure,
\* categorize_skills_from_text, the datastore write and the response, with
\* the number of calls made to the generative model
Pdf == <<".", "p", "d", "f">>
PdfUpper == <<".", "P", "D", "F">>
Docx == <<".", "d", "o", "c", "x">>
Txt == <<".", "t", "x", "t">>
ResumeText == S("resume text")

\* extract_text_auto(path): the file's text; None when the path is gone, the
\* type is neither .pdf nor .docx, or the reader raises on a corrupt file; a
\* document without text gives ""
ExtractTextAuto(file) ==
    IF ~file.exists THEN None
    ELSE IF Lower(file.ext) \in {Pdf, Docx}
         THEN CASE file.body = "corrupt" -> None
                [] file.body = "blank" -> Str(<<>>)
                [] OTHER -> ResumeText
         ELSE None

\* a handler that goes on to the model whatever was extracted
Mut_AfterExtract(resume_text) == "structure"

\* if not resume_text: raise HTTPException(status_code=400, ..)
AfterExtract(resume_text) == IF ~Truthy(resume_text) THEN "except" ELSE "structure"

\* get_resume_structure / categorize_skills_from_text after the prompt: the
\* parsed output, None when it is falsy or anything raised
ParsedOrNone(outcome_, variant) ==
    LET data == LoadModelOutput(outcome_, variant)
    IN IF data[1] = "raise" THEN None
       ELSE IF ~Truthy(data[2]) THEN None
       ELSE data[2]
GetResumeStructure(outcome_, variant) == ParsedOrNone(outcome_, variant)
CategorizeSkillsFromText(outcome_, variant) == ParsedOrNone(outcome_, variant)

\* a handler that gives up when the skills step gave nothing
Mut_AfterCategorize(categorized_skills) ==
    IF Truthy(categorized_skills) THEN "persist" ELSE "except"

\* if categorized_skills: structured_data['skills'] = categorized_skills; the
\* handler goes on to the datastore either way
AfterCategorize(categorized_skills) == "persist"

StructFull ==
    Dict(SelectSeq(UploadFull[2], LAMBDA p : p[1] # "skills"))
SkillsOut == Dict(<< <<"Tools", List(<<S("Git"), S("Docker")>>)>> >>)
Prose == <<"text", <<"Sorry", " ", "no">>>>
StructureOutcomes ==
    {<<"raise">>, Prose}
    \cup {<<"text", Dumps(v)>> : v \in {StructFull, UploadFull, UploadSparse, UploadBadInfo, ValList}}
SkillsOutcomes == {<<"raise">>, Prose, <<"text", Dumps(SkillsOut)>>, <<"text", Dumps(ValList)>>}
Files ==
    {[exists |-> TRUE, ext |-> e, body |-> b] :
        e \in {Pdf, PdfUpper, Docx, Txt}, b \in {"text", "blank", "corrupt"}}
    \cup {[exists |-> FALSE, ext |-> Pdf, body |-> "text"]}

FlowInit ==
    /\ JsonIdle
    /\ MergeIdle
    /\ StoreIdle
    /\ UpdateIdle
    /\ UploadIdle
    /\ PureIdle
    /\ \E variant \in Variants, file \in Files, structure \in StructureOutcomes,
          skills \in SkillsOutcomes :
          flow = [variant |-> variant, pc |-> "extract", file |-> file,
                  structure |-> structure, skills |-> skills,
                  resume_text |-> None, structured_data |-> None,
                  categorized_skills |-> None, model_calls |-> 0,
                  raised |-> 0, response |-> 0, store |-> EmptyStore]

\* resume_text = extract_text_auto(tmp_file_path); if not resume_text: raise
FlowExtract ==
    /\ flow.pc = "extract"
    /\ LET resume_text == ExtractTextAuto(flow.file)
       IN flow' = [flow EXCEPT !.resume_text = resume_text,
                               !.pc = AfterExtract(resume_text),
                               !.raised = IF AfterExtract(resume_text) = "except" THEN 400 ELSE 0]
    /\ UNCHANGED <<varsJson, varsMerge, varsStore, varsUpdate, varsUpload, varsPure>>

\* structured_data = get_resume_structure(resume_text); if not structured_data: raise
FlowStructure ==
    /\ flow.pc = "structure"
    /\ LET structured_data == GetResumeStructure(flow.structure, flow.variant)
       IN flow' = [flow EXCEPT !.structured_data = structured_data,
                               !.model_calls = @ + 1,
                               !.pc = IF Truthy(structured_data) THEN "categorize" ELSE "except",
                               !.raised = IF Truthy(structured_data) THEN 0 ELSE 500]
    /\ UNCHANGED <<varsJson, varsMerge, varsStore, varsUpdate, varsUpload, varsPure>>

\* categorized_skills = categorize_skills_from_text(resume_text);
\* if categorized_skills: structured_data['skills'] = categorized_skills
\* (a TypeError when structured_data is a list)
FlowCategorize ==
    /\ flow.pc = "categorize"
    /\ LET categorized_skills == CategorizeSkillsFromText(flow.skills, flow.variant)
       IN flow' =
            IF AfterCategorize(categorized_skills) = "except"
            THEN [flow EXCEPT !.categorized_skills = categorized_skills,
                              !.model_calls = @ + 1, !.pc = "except", !.raised = 500]
            ELSE IF ~Truthy(categorized_skills)
            THEN [flow EXCEPT !.categorized_skills = categorized_skills,
                              !.model_calls = @ + 1, !.pc = "persist"]
            ELSE IF ~IsDict(flow.structured_data)
            THEN [flow EXCEPT !.categorized_skills = categorized_skills,
                              !.model_calls = @ + 1, !.pc = "except", !.raised = 500]
            ELSE [flow EXCEPT !.categorized_skills = categorized_skills,
                              !.model_calls = @ + 1, !.pc = "persist",
                              !.structured_data = DictPut(@, "skills", categorized_skills)]
    /\ UNCHANGED <<varsJson, varsMerge, varsStore, varsUpdate, varsUpload, varsPure>>

\* db.update_resume_relational(..) and "if not success: raise" (integrate);
\* db.save_resume_relational(..), which raises by itself (Optimization); then
\* the JSONResponse
FlowPersist ==
    /\ flow.pc = "persist"
    /\ LET file_name == S("cv")
           r == IF ~IsDict(flow.structured_data)
                THEN [store |-> IF flow.variant = "integrate"
                                THEN ApplyWrite(flow.store, <<"touch">>, 1, FALSE)
                                ELSE flow.store,
                      ret |-> FALSE]
                ELSE IF flow.variant = "integrate"
                THEN UpdateResumeRelational(flow.store, file_name, flow.structured_data, 1, FALSE)
                ELSE SaveResumeRelational(flow.store, file_name, flow.structured_data)
       IN flow' = IF r.ret
                  THEN [flow EXCEPT !.store = r.store, !.pc = "done", !.response = 200]
                  ELSE [flow EXCEPT !.store = r.store, !.pc = "except", !.raised = 500]
    /\ UNCHANGED <<varsJson, varsMerge, varsStore, varsUpdate, varsUpload, varsPure>>

\* except Exception as e: raise HTTPException(status_code=500, ..)
FlowExcept ==
    /\ flow.pc = "except"
    /\ flow' = [flow EXCEPT !.pc = "done", !.response = 500]
    /\ UNCHANGED <<varsJson, varsMerge, varsStore, varsUpdate, varsUpload, varsPure>>

FlowNext == FlowExtract \/ FlowStructure \/ FlowCategorize \/ FlowPersist \/ FlowExcept

SpecFlow == FlowInit /\ [][FlowNext]_vars

\* C14: when extract_text_auto yields no text (unsupported type, missing or
\* corrupt file), no call to the generative model is made, and the request
\* ends so.
C14_ExtractBeforeModel ==
    (flow.pc # "extract" /\ ~Truthy(flow.resume_text)) =>
        /\ flow.model_calls = 0
        /\ flow.pc \in {"except", "done"}

C14_Witness ==
    /\ flow.pc = "done"
    /\ Lower(flow.file.ext) = Txt
    /\ flow.response # 200
    /\ flow.model_calls = 0

\* structural extraction gave a record the datastore takes, and skill
\* categorization gave nothing
StructureOnly ==
    /\ IsDict(GetResumeStructure(flow.structure, flow.variant))
    /\ ~(/\ DictHas(GetResumeStructure(flow.structure, flow.variant), "personal_info")
         /\ ~IsDict(DictGet(GetResumeStructure(flow.structure, flow.variant), "personal_info")))
    /\ flow.skills \in {<<"raise">>, Prose}
Persisted(structured_data) ==
    IF flow.variant = "integrate"
    THEN UpdateResumeRelational(EmptyStore, S("cv"), structured_data, 1, FALSE).store
    ELSE SaveResumeRelational(EmptyStore, S("cv"), structured_data).store

RECURSIVE Nested(_)
Nested(n) == IF n = 0 THEN Num(1) ELSE List(<<Nested(n - 1)>>)

ObjA == Dict(<<<<"a", Num(1)>>>>)
ObjB == Dict(<<<<"b", Num(2)>>>>)
\* JSON documents: every type, empty and nested containers, strings holding a
\* fence, a quote and a newline, and nesting at and one past the limit
Docs ==
    { None, <<"bool", TRUE>>, <<"bool", FALSE>>, Num(0), Num(12),
      Str(<<>>), Str(FenceClose), Str(<<"a", "\n", Quote>>), Str(<<"}", "{">>),
      List(<<>>), Dict(<<>>), List(<<Num(1), Num(2)>>), ObjA,
      List(<<ObjA, ObjB>>), List(<<ObjA>>),
      Dict(<<<<"a", List(<<Num(1)>>)>>, <<"b", S("x")>>>>),
      Nested(RecursionLimit), Nested(RecursionLimit + 1) }
Containers == {d \in Docs : IsDict(d) \/ IsList(d)}

\* "```json\n" + json.dumps(d) + "\n```"
Fenced(d) == FenceOpen \o <<"\n">> \o Dumps(d) \o <<"\n">> \o FenceClose

Preambles == {<<"Here", " ", "it", " ", "is", ":", " ">>, <<"Sure", "!", "\n">>}
Trailers == {<<" ", "Hope", " ", "this", " ", "helps", ".">>, <<"\n", "Done", ".">>}

Targets ==
    { <<>>, <<" ">>,
      <<"w", "o", "r", "k", " ", "e", "x", "p">>,
      <<" ", "W", "o", "r", "k", " ", "E", "x", "p", "e", "r", "i", "e", "n", "c", "e", "\n">>,
      <<"z", "z", "z">>,
      <<"p", "r", "o", "j", "e", "c", "t", "s">>,
      <<"s", "k", "i", "l", "l", "s">>,
      <<"m", "y", " ", "s", "k", "i", "l", "l", "s">>,
      <<"s">> }
KeyLists ==
    { <<>>, <<"work_experience", "education">>, <<"education", "work_experience">>,
      <<"personal_projects", "projects">>, <<"projects", "personal_projects">>,
      <<"skills ", "summary">>, <<"Work Experience", "skills">>,
      <<"summary", "skills", "projects">> }

NoResult == <<"pending">>
SafeJsonLoadsCalls ==
    { [fn |-> "_safe_json_loads", shape |-> "fenced", doc |-> d,
       args |-> <<Fenced(d), None, v>>, pc |-> "call"] : d \in Docs, v \in Variants }
    \cup
    { [fn |-> "_safe_json_loads", shape |-> "wrapped", doc |-> d,
       args |-> <<pre \o Dumps(d) \o post, None, v>>, pc |-> "call"] :
         d \in Containers, pre \in Preambles, post \in Trailers, v \in Variants }
BestSectionKeyCalls ==
    { [fn |-> "_best_section_key", shape |-> "keys", doc |-> None,
       args |-> <<t, ks>>, pc |-> "call"] : t \in Targets, ks \in KeyLists }

PureSafeJsonLoads ==
    /\ pcall.pc = "call" /\ pcall.fn = "_safe_json_loads"
    /\ presult' = SafeJsonLoads(pcall.args[1], pcall.args[2], pcall.args[3])
    /\ pcall' = [pcall EXCEPT !.pc = "done"]
    /\ UNCHANGED <<varsJson, varsMerge, varsStore, varsUpdate, varsUpload, varsFlow>>

PureBestSectionKey ==
    /\ pcall.pc = "call" /\ pcall.fn = "_best_section_key"
    /\ presult' = BestSectionKey(pcall.args[1], pcall.args[2])
    /\ pcall' = [pcall EXCEPT !.pc = "done"]
    /\ UNCHANGED <<varsJson, varsMerge, varsStore, varsUpdate, varsUpload, varsFlow>>

Returned(fn, shape) == pcall.pc = "done" /\ pcall.fn = fn /\ pcall.shape = shape

\* C17: the serialization of any JSON document d between a "```json" line and
\* a "```" line, decoded with fallback null, gives back a value equal to d.
C17_FenceRoundTrip ==
    Returned("_safe_json_loads", "fenced") => presult = Return(pcall.doc)

\* C18: a preamble, one serialized object or array and trailing text decode
\* to that object or array, neither the fallback nor a fragment of it.
C18_PreambleRecovered ==
    Returned("_safe_json_loads", "wrapped") => presult = Return(pcall.doc)

\* C20: target and candidates are trimmed, lower-cased and have spaces turned
\* into underscores; the first candidate in order that equals, contains or is
\* contained in the target is returned, null when none does or the target is empty.
NormalizedKey(s) == SpacesToUnderscores(Lower(Strip(s)))
Accepts(target, k) ==
    LET t == NormalizedKey(target)
        c == NormalizedKey(Chars(k))
    IN t = c \/ IsSubstr(t, c) \/ IsSubstr(c, t)
C20_ResolveSectionKey ==
    Returned("_best_section_key", "keys") =>
        LET target == pcall.args[1]
            keys == pcall.args[2]
            accepting == {i \in 1..Len(keys) : Accepts(target, keys[i])}
        IN IF Len(target) = 0 \/ accepting = {} THEN presult = None
           ELSE presult = <<"key", keys[CHOOSE i \in accepting : \A j \in accepting : i <= j]>>

\* ------------------------------------------- callers parsing model text
\* str.replace(old, new): every non-overlapping occurrence, left to right
RECURSIVE ReplaceAll(_, _, _)
ReplaceAll(s, old, new) ==
    IF Len(s) = 0 THEN <<>>
    ELSE IF StartsWith(s, old)
         THEN new \o ReplaceAll(SubSeq(s, Len(old) + 1, Len(s)), old, new)
    ELSE <<Head(s)>> \o ReplaceAll(Tail(s), old, new)

\* response.text.replace('```json', '').replace('```', '').strip()
CleanedResponseText(text) ==
    Strip(ReplaceAll(ReplaceAll(text, FenceOpen, <<>>), FenceClose, <<>>))

\* generate_career_roadmap: json.loads of the cleaned text; any exception,
\* of the model call or of the decoder, gives None
GenerateCareerRoadmap(outcome_) ==
    IF outcome_[1] = "raise" THEN None
    ELSE LET r == JsonLoads(CleanedResponseText(outcome_[2]))
         IN IF r.ok THEN r.val ELSE None

\* get_tutor_explanation: the same steps
GetTutorExplanation(outcome_) ==
    IF outcome_[1] = "raise" THEN None
    ELSE LET r == JsonLoads(CleanedResponseText(outcome_[2]))
         IN IF r.ok THEN r.val ELSE None

\* re.search(r'\[\s*{.*?}\s*(?:,\s*{.*?}\s*)*\]', raw_text, re.DOTALL), by
\* backtracking: LazyBody is ".*?}" followed by the rest of the pattern, tried
\* at each "}" from the nearest on; AfterObject is "\s*(?:,\s*{.*?}\s*)*\]".
\* Both give the position of the closing "]", 0 when there is no match.
RECURSIVE LazyBody(_, _), AfterObject(_, _)
LazyBody(s, p) ==
    IF p > Len(s) THEN 0
    ELSE LET e == IF s[p] = "}" THEN AfterObject(s, p + 1) ELSE 0
         IN IF e # 0 THEN e ELSE LazyBody(s, p + 1)
AfterObject(s, p) ==
    LET j == SkipWs(s, p)
    IN IF j > Len(s) THEN 0
       ELSE IF s[j] = "]" THEN j
       ELSE IF s[j] = ","
            THEN LET k == SkipWs(s, j + 1)
                 IN IF k <= Len(s) /\ s[k] = "{" THEN LazyBody(s, k + 1) ELSE 0
       ELSE 0
MatchArrayAt(s, i) ==
    IF s[i] # "[" THEN 0
    ELSE LET j == SkipWs(s, i + 1)
         IN IF j <= Len(s) /\ s[j] = "{" THEN LazyBody(s, j + 1) ELSE 0
RegexSearchArrayOfObjects(s) ==
    LET starts == {i \in 1..Len(s) : MatchArrayAt(s, i) # 0}
    IN IF starts = {} THEN <<>>
       ELSE LET a == CHOOSE i \in starts : \A j \in starts : i <= j
            IN SubSeq(s, a, MatchArrayAt(s, a))

\* re.search(r'\[.*\]', raw_text, re.DOTALL): the first "[" to the last "]"
RegexSearchArray(s) ==
    LET opens == {i \in 1..Len(s) : s[i] = "["}
        closes == {i \in 1..Len(s) : s[i] = "]"}
    IN IF opens = {} THEN <<>>
       ELSE LET a == CHOOSE i \in opens : \A j \in opens : i <= j
                after == {i \in closes : i > a}
            IN IF after = {} THEN <<>>
               ELSE SubSeq(s, a, CHOOSE i \in after : \A j \in after : j <= i)

\* re.sub(r'}\s*{', '},{', json_str)
RECURSIVE SubBraces(_, _)
SubBraces(s, i) ==
    IF i > Len(s) THEN <<>>
    ELSE LET j == SkipWs(s, i + 1)
         IN IF s[i] = "}" /\ j <= Len(s) /\ s[j] = "{"
            THEN <<"}", ",", "{">> \o SubBraces(s, j + 1)
            ELSE <<s[i]>> \o SubBraces(s, i + 1)
Mut_FixedJsonStr(json_str) == json_str
FixedJsonStr(json_str) == SubBraces(json_str, 1)

\* job.update({'rating': ..., 'reason': ...})
JobUpdate(job, rating, reason) == DictPut(DictPut(job, "rating", rating), "reason", reason)
AllJobs(jobs, reason) == [i \in 1..Len(jobs) |-> JobUpdate(jobs[i], Num(0), S(reason))]
DictGetOr(d, k, default) == IF DictHas(d, k) THEN DictGet(d, k) ELSE default

\* the loop over ratings_data: <<"raise">> when an element has no .get
RECURSIVE ApplyRatings(_, _)
ApplyRatings(jobs, ratings_data) ==
    IF Len(ratings_data) = 0 THEN <<"ok", jobs>>
    ELSE LET rating_info == Head(ratings_data)
             job_id == DictGet(rating_info, "id")
             \* isinstance(job_id, int) holds for int and for bool
             idx == CASE Tag(job_id) = "num" -> job_id[2]
                      [] Tag(job_id) = "bool" -> IF job_id[2] THEN 1 ELSE 0
                      [] OTHER -> -1
         IN IF ~IsDict(rating_info) THEN <<"raise">>
            ELSE IF 0 <= idx /\ idx < Len(jobs)
                 THEN ApplyRatings(
                        [jobs EXCEPT ![idx + 1] =
                            JobUpdate(@, DictGetOr(rating_info, "rating", Num(0)),
                                         DictGetOr(rating_info, "reason", S("N/A")))],
                        Tail(ratings_data))
            ELSE ApplyRatings(jobs, Tail(ratings_data))

RatingVariants == {"integrate", "joblisting"}
ExceptReason(variant) ==
    IF variant = "integrate" THEN "Error during AI rating process."
    ELSE "Error during rating process."

\* get_job_ratings_in_one_call(jobs, skills), given what the model call does
\* and, for the integrate variant, whether the API key is configured
GetJobRatingsInOneCall(jobs, skills, outcome_, variant, configured) ==
    IF variant = "integrate" /\ (Len(jobs) = 0 \/ Len(skills) = 0) THEN jobs
    ELSE IF Len(jobs) = 0 THEN <<>>
    ELSE IF variant = "integrate" /\ ~configured THEN AllJobs(jobs, "AI not configured.")
    ELSE IF outcome_[1] = "raise" THEN AllJobs(jobs, ExceptReason(variant))
    ELSE LET raw_text == outcome_[2]
             json_str == IF variant = "integrate" THEN RegexSearchArrayOfObjects(raw_text)
                         ELSE RegexSearchArray(raw_text)
             first == JsonLoads(json_str)
             second == JsonLoads(FixedJsonStr(json_str))
             parsed == IF first.ok \/ first.err = "recursion" THEN first ELSE second
             applied == IF IsList(parsed.val) THEN ApplyRatings(jobs, parsed.val[2])
                        ELSE <<"raise">>
         IN IF json_str = <<>>
            THEN AllJobs(jobs, "Error: Invalid response format from AI.")
            ELSE IF ~parsed.ok
                 THEN IF parsed.err = "recursion" THEN AllJobs(jobs, ExceptReason(variant))
                      ELSE AllJobs(jobs, "Error: Could not parse AI response.")
            ELSE IF applied[1] = "raise" THEN AllJobs(jobs, ExceptReason(variant))
            ELSE applied[2]

\* ---- inputs of the callers
Rating(id, rating, reason) ==
    Dict(<<<<"id", Num(id)>>, <<"rating", Num(rating)>>, <<"reason", reason>>>>)
E0 == Rating(0, 8, S("match"))
E1 == Rating(1, 3, S("weak"))
E2 == Rating(2, 5, Str(<<"so", "}", "{", "so">>))
\* json.dumps(v, separators=(',', ':')) for values whose strings hold no space
Compact(v) == SelectSeq(Dumps(v), LAMBDA c : c # " ")
\* an array of objects written with the given text between neighbours
RECURSIVE JoinObjects(_, _)
JoinObjects(elems, gaps) ==
    IF Len(elems) = 0 THEN <<>>
    ELSE Compact(Head(elems))
         \o (IF Len(elems) > 1 THEN Head(gaps) \o JoinObjects(Tail(elems), Tail(gaps))
             ELSE <<>>)
ArrayText(elems, gaps) == <<"[">> \o JoinObjects(elems, gaps) \o <<"]">>
Gaps == {<<",">>, <<>>, <<"\n">>}
Missing(gaps) == {i \in 1..Len(gaps) : gaps[i] # <<",">>}
ShapeOf(gaps) ==
    IF Missing(gaps) = {} THEN "valid"
    ELSE IF Cardinality(Missing(gaps)) = 1 THEN "missing_comma" ELSE "other"
ElemLists == {<<E0, E1>>, <<E1, E0>>, <<E0, E1, E2>>, <<E2, E0>>}
ArrayOutcomes ==
    UNION { { [shape |-> ShapeOf(g), doc |-> List(el), text |-> ArrayText(el, g)] :
                g \in [1..(Len(el) - 1) -> Gaps] } : el \in ElemLists }
OtherTexts ==
    { <<"Sorry", ",", " ", "no", ".">>,
      <<"[", "1", ",", " ", "2", "]">>,
      <<"{", Quote, "id", Quote, ":", "0", "}">>,
      <<"Here", ":", " ">> \o Compact(List(<<E1>>)) \o <<" ", "[", "sic", "]">>,
      Compact(List(<<Rating(5, 9, S("far"))>>)),
      Compact(List(<<Dict(<<<<"id", <<"bool", TRUE>>>>, <<"rating", Num(9)>>>>)>>)),
      Compact(List(<<Dict(<<<<"id", Num(0)>>>>), Dict(<<<<"rating", Num(4)>>>>)>>)),
      Compact(List(<<E0, Num(7)>>)),
      <<"[", "{", Quote, "id", Quote, ":", "0", "}", " ", "x", "]">>,
      Fenced(List(<<E0, E1>>)),
      <<"[">> \o Compact(E0) \o <<",">>,
      Repeat("[", RecursionLimit + 1) \o Repeat("]", RecursionLimit + 1),
      Fenced(ObjA), <<"Here", ":", " ">> \o Dumps(ObjA),
      Dumps(ObjA) }
ListingA == Dict(<<<<"title", S("a")>>>>)
ListingB == Dict(<<<<"title", S("b")>>>>)
ListingC == Dict(<<<<"title", S("c")>>, <<"rating", Num(1)>>>>)
JobLists == {<<ListingA, ListingB>>, <<ListingA, ListingB, ListingC>>}
RatingsCalls ==
    { [fn |-> "get_job_ratings_in_one_call", shape |-> o.shape, doc |-> o.doc,
       args |-> <<jobs, <<"python">>, <<"text", o.text>>, v, TRUE>>, pc |-> "call"] :
         o \in ArrayOutcomes, jobs \in JobLists, v \in RatingVariants }
    \cup
    { [fn |-> "get_job_ratings_in_one_call", shape |-> "other", doc |-> None,
       args |-> <<<<ListingA, ListingB>>, <<"python">>, o, v, TRUE>>, pc |-> "call"] :
         o \in {<<"text", t>> : t \in OtherTexts} \cup {<<"raise">>},
         v \in RatingVariants }
    \cup
    { [fn |-> "get_job_ratings_in_one_call", shape |-> "other", doc |-> None,
       args |-> <<jobs, skills, <<"text", ArrayText(<<E0, E1>>, <<<<",">>>>)>>, v, c>>,
       pc |-> "call"] :
         jobs \in {<<>>, <<ListingA, ListingB>>}, skills \in {<<>>, <<"python">>},
         v \in RatingVariants, c \in BOOLEAN }
TextCallers == {"generate_career_roadmap", "get_tutor_explanation"}
TextCalls ==
    { [fn |-> f, shape |-> "other", doc |-> None, args |-> <<o>>, pc |-> "call"] :
        f \in TextCallers,
        o \in {<<"text", t>> : t \in OtherTexts} \cup {<<"raise">>} }

PureGenerateCareerRoadmap ==
    /\ pcall.pc = "call" /\ pcall.fn = "generate_career_roadmap"
    /\ presult' = GenerateCareerRoadmap(pcall.args[1])
    /\ pcall' = [pcall EXCEPT !.pc = "done"]
    /\ UNCHANGED <<varsJson, varsMerge, varsStore, varsUpdate, varsUpload, varsFlow>>

PureGetTutorExplanation ==
    /\ pcall.pc = "call" /\ pcall.fn = "get_tutor_explanation"
    /\ presult' = GetTutorExplanation(pcall.args[1])
    /\ pcall' = [pcall EXCEPT !.pc = "done"]
    /\ UNCHANGED <<varsJson, varsMerge, varsStore, varsUpdate, varsUpload, varsFlow>>

PureGetJobRatingsInOneCall ==
    /\ pcall.pc = "call" /\ pcall.fn = "get_job_ratings_in_one_call"
    /\ presult' = GetJobRatingsInOneCall(pcall.args[1], pcall.args[2], pcall.args[3],
                                         pcall.args[4], pcall.args[5])
    /\ pcall' = [pcall EXCEPT !.pc = "done"]
    /\ UNCHANGED <<varsJson, varsMerge, varsStore, varsUpdate, varsUpload, varsFlow>>

\* C16: model text becomes structured data only through _safe_json_loads: what
\* each caller makes of a text is what _safe_json_loads makes of that text.
ViaSafeJsonLoads(text) == SafeJsonLoads(text, None, "integrate")
C16_SingleChokepoint ==
    /\ (pcall.pc = "done" /\ pcall.fn \in TextCallers /\ pcall.args[1][1] = "text")
          => Return(presult) = ViaSafeJsonLoads(pcall.args[1][2])
    /\ (pcall.pc = "done" /\ pcall.fn = "get_job_ratings_in_one_call"
          /\ pcall.shape \in {"valid", "missing_comma"})
          => LET data == ViaSafeJsonLoads(pcall.args[3][2])
             IN /\ data[1] = "return" /\ IsList(data[2])
                /\ presult = ApplyRatings(pcall.args[1], data[2][2])[2]

\* C19: the job-rating caller recovers an array of rating objects in which one
\* comma between two neighbouring objects is missing: the comma is inserted,
\* the second strict parse succeeds, and each object's rating reaches the job
\* its id names (the text of the scenario rates jobs 0 and 1 with 8 and 3).
RatedBy(job, e) ==
    /\ DictGet(job, "rating") = DictGet(e, "rating")
    /\ (~IsSubstr(<<"}", "{">>, DictGet(e, "reason")[2])
          => DictGet(job, "reason") = DictGet(e, "reason"))
ScenarioText ==
    <<"[", "{", Quote, "id", Quote, ":", "0", ",", Quote, "rating", Quote, ":", "8", ",",
      Quote, "reason", Quote, ":", Quote, "match", Quote, "}",
      "{", Quote, "id", Quote, ":", "1", ",", Quote, "rating", Quote, ":", "3", ",",
      Quote, "reason", Quote, ":", Quote, "weak", Quote, "}", "]">>
EditRequests ==
    { <<>>, <<" ">>, <<" ", "\n">>, <<":">>,
      <<"projects", ":", " ", "add", " ", "more", " ", "detail">>,
      <<"summary">>, <<" ", "summary", "\n">>,
      <<"fix", " ", "formatting">>,
      <<":", " ", "fix">>, <<"skills", ":">>, <<" ", "skills", " ", ":", " ">>,
      <<"work", " ", "exp", ":", "use", " ", "ratio", " ", "3", ":", "1">>,
      <<"a", ":", "b", ":", "c">> }
ParseCalls ==
    { [fn |-> "parse_user_optimization_input", shape |-> "request", doc |-> None,
       args |-> <<inp>>, pc |-> "call"] : inp \in EditRequests }

PureParseUserOptimizationInput ==
    /\ pcall.pc = "call" /\ pcall.fn = "parse_user_optimization_input"
    /\ presult' = ParseUserOptimizationInput(pcall.args[1])
    /\ pcall' = [pcall EXCEPT !.pc = "done"]
    /\ UNCHANGED <<varsJson, varsMerge, varsStore, varsUpdate, varsUpload, varsFlow>>

\* C22: empty or blank input gives (null, null); input with a colon is split
\* at its first colon into the two trimmed parts; otherwise one token gives
\* (token, null); otherwise the result is (null, the trimmed input).
C22_ParseEditRequest ==
    Returned("parse_user_optimization_input", "request") =>
        LET inp == pcall.args[1]
            colons == {i \in 1..Len(inp) : inp[i] = ":"}
            first == CHOOSE i \in colons : \A j \in colons : i <= j
            blank == \A i \in 1..Len(inp) : inp[i] \in WS
            inner == {i \in 1..Len(Strip(inp)) : Strip(inp)[i] \in WS}
        IN presult =
             IF blank THEN <<None, None>>
             ELSE IF colons # {}
                  THEN <<Str(Strip(SubSeq(inp, 1, first - 1))),
                         Str(Strip(SubSeq(inp, first + 1, Len(inp))))>>
             ELSE IF inner = {} THEN <<Str(Strip(inp)), None>>
             ELSE <<None, Str(Strip(inp))>>
C22_Witness ==
    /\ Returned("parse_user_optimization_input", "request")
    /\ pcall.args[1] = <<"projects", ":", " ", "add", " ", "more", " ", "detail">>
    /\ presult = <<Str(<<"projects">>), Str(<<"add", " ", "more", " ", "detail">>)>>

\* ---- optimize_resume_json given the record itself as the model's record
RecNested ==
    Dict(<< <<"personal_info", Dict(<< <<"name", S("Ann")>>,
                                       <<"links", Dict(<< <<"web", S("x")>> >>)>> >>)>>,
            <<"skills", Dict(<<>>)>>,
            <<"projects", List(<<>>)>>,
            <<"summary", None>> >>)
SelfRecords == Records \cup {RecNested, Dict(<<>>), Dict(<< <<"summary", S("s1")>> >>)}
SelfMergeCalls ==
    { [fn |-> "optimize_resume_json", shape |-> "self", doc |-> rec,
       args |-> <<rec, ReqWhole, <<"text", pre \o Dumps(rec)>>, DictKeys(rec), v>>,
       pc |-> "call"] :
         rec \in SelfRecords, pre \in {<<>>, <<"Here", ":", " ">>}, v \in Variants }

PureOptimizeResumeJson ==
    /\ pcall.pc = "call" /\ pcall.fn = "optimize_resume_json"
    /\ presult' = OptimizeResumeJson(pcall.args[1], pcall.args[2], pcall.args[3],
                                     pcall.args[4], pcall.args[5])
    /\ pcall' = [pcall EXCEPT !.pc = "done"]
    /\ UNCHANGED <<varsJson, varsMerge, varsStore, varsUpdate, varsUpload, varsFlow>>

\* C23: the whole-record merge of a record with itself as the model's record
\* gives a record equal to the original.
C23_MergeIdempotent ==
    Returned("optimize_resume_json", "self") => presult = pcall.doc
C23_Witness ==
    /\ Returned("optimize_resume_json", "self")
    /\ pcall.doc = RecFull /\ pcall.args[5] = "integrate"
    /\ LoadModelOutput(pcall.args[3], "integrate") = Return(RecFull)
    /\ presult = RecFull

\* ---- save_resume_json_to_docx
\* The document is the sequence of its paragraphs, each with its kind
\* ("title": heading of level 0, "heading": level 2, "para", "bullet",
\* "skills"), the record key it was rendered for, and its text; a paragraph of
\* kind "raise" marks the statement at which the code raises.
Mut_PrintOrder ==
    <<"summary", "personal_info", "skills", "work_experience", "internships", "projects",
      "education", "certifications">>
PrintOrder ==
    <<"personal_info", "summary", "skills", "work_experience", "internships", "projects",
      "education", "certifications">>
Para(kind, section, text) == [kind |-> kind, section |-> section, text |-> text]
RaiseHere(section) == <<Para("raise", section, <<>>)>>
\* _norm(text) guards add_heading and add_para
AddHeading(text, section) ==
    IF Len(Strip(text)) > 0 THEN <<Para("heading", section, Strip(text))>> ELSE <<>>
AddPara(text, section, kind) ==
    IF Len(Strip(text)) > 0 THEN <<Para(kind, section, Strip(text))>> ELSE <<>>
\* doc.add_paragraph(text, style="List Bullet"): no guard
AddParagraph(text, section) == <<Para("bullet", section, text)>>

\* _norm(p) is truthy; a value that is neither None, falsy nor a str has no strip()
NormTruthy(v) == IsStr(v) /\ Len(Strip(v[2])) > 0
NormRaises(v) == ~IsStr(v) /\ Truthy(v)
\* " | ".join([str(p) for p in parts if _norm(p)])
RECURSIVE SmartJoin(_)
SmartJoin(parts) ==
    LET kept == SelectSeq(parts, NormTruthy)
    IN IF Len(kept) = 0 THEN <<>>
       ELSE kept[1][2] \o (IF Len(kept) > 1 THEN <<" ", "|", " ">> \o SmartJoin(Tail(kept))
                           ELSE <<>>)
SmartJoinRaises(parts) == \E i \in 1..Len(parts) : NormRaises(parts[i])
Gets(d, keys) == [i \in 1..Len(keys) |-> DictGet(d, keys[i])]

\* a dict item of a list section: header, sub-header, description bullets
RECURSIVE DescBullets(_, _, _)
DescBullets(bullets, section, variant) ==
    IF Len(bullets) = 0 THEN <<>>
    ELSE (IF NormRaises(bullets[1]) THEN RaiseHere(section)
          ELSE IF ~NormTruthy(bullets[1]) THEN <<>>
          ELSE IF variant = "integrate" THEN AddPara(bullets[1][2], section, "bullet")
          ELSE AddParagraph(bullets[1][2], section))
         \o DescBullets(Tail(bullets), section, variant)
RenderItem(item, section, variant) ==
    LET header_parts == Gets(item, <<"title", "name", "role", "degree", "institution">>)
        sub_header_parts == Gets(item, <<"company", "duration">>)
        desc == IF DictHas(item, "description") THEN DictGet(item, "description")
                ELSE List(<<>>)
    IN (IF SmartJoinRaises(header_parts) THEN RaiseHere(section)
        ELSE AddPara(SmartJoin(header_parts), section, "para"))
       \o (IF SmartJoinRaises(sub_header_parts) THEN RaiseHere(section)
           ELSE AddPara(SmartJoin(sub_header_parts), section, "para"))
       \o (IF IsList(desc) THEN DescBullets(desc[2], section, variant)
           ELSE DescBullets(<<desc>>, section, variant))
RECURSIVE RenderItems(_, _, _)
RenderItems(items, section, variant) ==
    IF Len(items) = 0 THEN <<>>
    ELSE (IF IsStr(items[1])
          THEN IF variant = "integrate" THEN AddPara(items[1][2], section, "bullet")
               ELSE AddParagraph(items[1][2], section)
          ELSE IF IsDict(items[1]) THEN RenderItem(items[1], section, variant)
          ELSE <<>>)
         \o RenderItems(Tail(items), section, variant)

\* ", ".join(skill_list)
RECURSIVE JoinComma(_)
JoinComma(items) ==
    IF Len(items) = 0 THEN <<>>
    ELSE items[1][2] \o (IF Len(items) > 1 THEN <<",", " ">> \o JoinComma(Tail(items))
                         ELSE <<>>)
RECURSIVE RenderSkills(_, _)
RenderSkills(pairs, variant) ==
    IF Len(pairs) = 0 THEN <<>>
    ELSE (IF IsList(pairs[1][2]) /\ (variant = "Optimization" \/ Len(pairs[1][2][2]) > 0)
          THEN IF \E i \in 1..Len(pairs[1][2][2]) : ~IsStr(pairs[1][2][2][i])
               THEN RaiseHere("skills")
               ELSE <<Para("skills", "skills",
                           TitleOf(pairs[1][1]) \o <<":", " ">> \o JoinComma(pairs[1][2][2]))>>
          ELSE <<>>)
         \o RenderSkills(Tail(pairs), variant)

\* the name and the contact line
RenderPersonalInfo(p_info, variant) ==
    LET name == DictGet(p_info, "name")
        contact == Gets(p_info, <<"email", "phone", "linkedin", "github">>)
    IN IF ~IsDict(p_info) THEN RaiseHere("personal_info")
       ELSE (IF ~Truthy(name) THEN <<>>
             ELSE IF ~IsStr(name) THEN RaiseHere("personal_info")
             ELSE IF variant = "integrate" THEN <<Para("title", "personal_info", name[2])>>
             ELSE IF Len(Strip(name[2])) > 0
                  THEN <<Para("title", "personal_info", Strip(name[2]))>>
             ELSE <<>>)
            \o (IF variant = "integrate"
                THEN LET truthy == SelectSeq(contact, Truthy)
                     IN IF SmartJoinRaises(truthy) THEN RaiseHere("personal_info")
                        ELSE AddPara(SmartJoin(truthy), "personal_info", "para")
                ELSE IF SmartJoinRaises(contact) THEN RaiseHere("personal_info")
                ELSE AddPara(SmartJoin(contact), "personal_info", "para"))

\* one pass of "for section in print_order"
RenderSection(resume_json_, section, variant) ==
    LET content == DictGet(resume_json_, section)
    IN IF ~DictHas(resume_json_, section) THEN <<>>
       ELSE IF section = "personal_info"
            THEN IF variant = "integrate" THEN <<>> ELSE RenderPersonalInfo(content, variant)
       ELSE AddHeading(TitleOf(section), section)
            \o (IF variant = "integrate"
                THEN IF section = "summary" /\ IsStr(content)
                     THEN AddPara(content[2], section, "para")
                     ELSE IF section = "skills" /\ IsDict(content)
                          THEN RenderSkills(content[2], variant)
                     ELSE IF IsList(content) THEN RenderItems(content[2], section, variant)
                     ELSE IF IsStr(content) THEN AddPara(content[2], section, "para")
                     ELSE <<>>
                ELSE IF section = "skills"
                     THEN IF IsDict(content) THEN RenderSkills(content[2], variant)
                          ELSE RaiseHere(section)
                     ELSE IF IsStr(content) THEN AddPara(content[2], section, "para")
                     ELSE IF IsList(content) THEN RenderItems(content[2], section, variant)
                     ELSE <<>>)
RECURSIVE RenderPrintOrder(_, _, _)
RenderPrintOrder(resume_json_, order, variant) ==
    IF Len(order) = 0 THEN <<>>
    ELSE RenderSection(resume_json_, Head(order), variant)
         \o RenderPrintOrder(resume_json_, Tail(order), variant)

\* "for section, content in resume_json.items()" over the other keys
RECURSIVE StrItems(_, _, _)
StrItems(items, section, variant) ==
    IF Len(items) = 0 THEN <<>>
    ELSE (IF variant = "integrate" THEN AddPara(PyStr(items[1]), section, "bullet")
          ELSE AddParagraph(PyStr(items[1]), section))
         \o StrItems(Tail(items), section, variant)
RECURSIVE RenderAdditional(_, _)
RenderAdditional(pairs, variant) ==
    IF Len(pairs) = 0 THEN <<>>
    ELSE (IF pairs[1][1] \in SeqToSet(PrintOrder)
             \/ (variant = "integrate" /\ pairs[1][1] = "resume_metadata")
          THEN <<>>
          ELSE AddHeading(TitleOf(pairs[1][1]), pairs[1][1])
               \o (IF IsList(pairs[1][2]) THEN StrItems(pairs[1][2][2], pairs[1][1], variant)
                   ELSE AddPara(PyStr(pairs[1][2]), pairs[1][1], "para")))
         \o RenderAdditional(Tail(pairs), variant)

\* save_resume_json_to_docx(resume_json): the document, or the exception
SaveResumeJsonToDocx(resume_json_, variant) ==
    LET first == IF variant = "integrate"
                 THEN RenderPersonalInfo(IF DictHas(resume_json_, "personal_info")
                                         THEN DictGet(resume_json_, "personal_info")
                                         ELSE Dict(<<>>), variant)
                 ELSE <<>>
        doc == first \o RenderPrintOrder(resume_json_, PrintOrder, variant)
                     \o RenderAdditional(resume_json_[2], variant)
    IN IF \E i \in 1..Len(doc) : doc[i].kind = "raise" THEN Raise("Exception")
       ELSE Return(doc)

\* records to render: the same sections under every key order, and records with
\* blank items, headers and description lines
RenderSections ==
    << <<"personal_info", Dict(<< <<"name", S("Ann")>>, <<"email", S("a@x")>> >>)>>,
       <<"summary", S("s1")>>,
       <<"work_experience",
         List(<< Dict(<< <<"title", S("Dev")>>, <<"company", S("Acme")>>,
                         <<"description", List(<<S("did")>>)>> >>) >>)>>,
       <<"achievements", List(<<S("won")>>)>>,
       <<"hobbies", S("chess")>> >>
RenderOrders ==
    { o \in [1..Len(RenderSections) -> 1..Len(RenderSections)] :
        \A i, j \in 1..Len(RenderSections) : i # j => o[i] # o[j] }
Reordered == { Dict([i \in 1..Len(RenderSections) |-> RenderSections[o[i]]]) : o \in RenderOrders }
BlankTexts == {<<>>, <<" ">>}
WithBlanks ==
    { Dict(<< <<"education", List(<<S("BSc"), Str(b)>>)>> >>) : b \in BlankTexts }
    \cup { Dict(<< <<"achievements", List(<<S("a"), Str(b), S("b")>>)>> >>) : b \in BlankTexts }
    \cup { Dict(<< <<"personal_info", Dict(<< <<"name", Str(b)>>, <<"phone", Str(b)>> >>)>>,
                   <<"summary", Str(b)>>, <<"hobbies", Str(b)>> >>) : b \in BlankTexts }
    \cup { Dict(<< <<"projects",
                     List(<< Dict(<< <<"title", Str(b)>>, <<"company", None>>,
                                     <<"description", List(<<Str(b), S("did")>>)>> >>) >>)>> >>) :
             b \in BlankTexts }
    \cup { Dict(<< <<"skills", Dict(<< <<"languages", List(<<>>)>>,
                                       <<"tools", List(<<S("git"), S("tlc")>>)>> >>)>>,
                   <<"resume_metadata", Dict(<< <<"file_name", S("cv.pdf")>> >>)>> >>),
           Dict(<< <<"skills", List(<<S("git")>>)>> >>),
           Dict(<< <<"personal_info", S("Ann")>> >>),
           Dict(<< <<"certifications", List(<< Dict(<< <<"name", Num(7)>> >>) >>)>> >>),
           Dict(<<>>) }
DocxCalls ==
    { [fn |-> "save_resume_json_to_docx", shape |-> sh, doc |-> rec, args |-> <<rec, v>>,
       pc |-> "call"] :
         sh \in {"render"}, rec \in Reordered \cup WithBlanks, v \in Variants }

PureSaveResumeJsonToDocx ==
    /\ pcall.pc = "call" /\ pcall.fn = "save_resume_json_to_docx"
    /\ presult' = SaveResumeJsonToDocx(pcall.args[1], pcall.args[2])
    /\ pcall' = [pcall EXCEPT !.pc = "done"]
    /\ UNCHANGED <<varsJson, varsMerge, varsStore, varsUpdate, varsUpload, varsFlow>>

\* C27: the document lists personal_info, summary, skills, work_experience,
\* internships, projects, education, certifications in that order, then the
\* additional sections, whatever the key order of the record: every section of
\* the record has its heading exactly once, and no paragraph of a later section
\* comes before a paragraph of an earlier one.
FixedOrder ==
    <<"personal_info", "summary", "skills", "work_experience", "internships", "projects",
      "education", "certifications">>
IndexOf(q, x) == CHOOSE i \in 1..Len(q) : q[i] = x
SectionRank(rec, section) ==
    IF section \in SeqToSet(FixedOrder) THEN IndexOf(FixedOrder, section)
    ELSE Len(FixedOrder) + 1
IsAdditional(section, variant) ==
    /\ section \notin SeqToSet(FixedOrder)
    /\ ~(variant = "integrate" /\ section = "resume_metadata")
InOrder(doc, rec, variant) ==
    /\ \A i, j \in 1..Len(doc) :
         i < j => SectionRank(rec, doc[i].section) <= SectionRank(rec, doc[j].section)
    /\ \A k \in SeqToSet(DictKeys(rec)) :
         (k # "personal_info" /\ (k \in SeqToSet(FixedOrder) \/ IsAdditional(k, variant)))
           => Cardinality({i \in 1..Len(doc) : doc[i].kind = "heading" /\ doc[i].section = k}) = 1
    /\ \A i \in 1..Len(doc) :
         /\ doc[i].section \in SeqToSet(DictKeys(rec)) \cup {"personal_info"}
         /\ doc[i].section # "personal_info" =>
              \E h \in 1..i : doc[h].kind = "heading" /\ doc[h].section = doc[i].section
                              /\ \A m \in h..i : doc[m].section = doc[i].section
C27_SectionOrder ==
    (Returned("save_resume_json_to_docx", "render") /\ presult[1] = "return")
        => InOrder(presult[2], pcall.doc, pcall.args[2])
C27_Witness ==
    /\ Returned("save_resume_json_to_docx", "render")
    /\ DictKeys(pcall.doc) = <<"hobbies", "achievements", "work_experience", "summary",
                               "personal_info">>
    /\ presult[1] = "return"
    /\ [i \in 1..Len(presult[2]) |-> presult[2][i].section]
         = <<"personal_info", "personal_info", "summary", "summary", "work_experience",
             "work_experience", "work_experience", "work_experience", "hobbies", "hobbies",
             "achievements", "achievements">>

\* C28: the document has no blank paragraph or bullet: no paragraph whose text
\* is empty or whitespace-only.
C28_NoBlankParagraph ==
    (Returned("save_resume_json_to_docx", "render") /\ presult[1] = "return")
        => \A i \in 1..Len(presult[2]) : Len(Strip(presult[2][i].text)) > 0

\* ---- POST /find_jobs/ (integrate) and POST /upload_resume/ (joblisting)
\* job.get(k, {}).get("display_name")
DisplayName(job, k) ==
    IF DictHas(job, k) THEN DictGet(DictGet(job, k), "display_name") ELSE None
JobIdentifier(job) == <<DictGet(job, "title"), DisplayName(job, "company"),
                        DisplayName(job, "location")>>
Identifiers(jobs) == {JobIdentifier(jobs[i]) : i \in 1..Len(jobs)}
\* the service returns at most results_per_page results
FirstN(q, n) == IF Len(q) <= n THEN q ELSE SubSeq(q, 1, n)
ResultsPerPage(skills, variant) ==
    IF variant = "integrate" THEN (IF 50 \div Len(skills) > 1 THEN 50 \div Len(skills) ELSE 1)
    ELSE 20
\* unique_jobs_dict after the fetch loops, in insertion order
RECURSIVE AddResults(_, _, _)
AddResults(unique, job_results, skill) ==
    IF Len(job_results) = 0 THEN unique
    ELSE AddResults(IF JobIdentifier(Head(job_results)) \in Identifiers(unique) THEN unique
                    ELSE Append(unique, DictPut(Head(job_results), "match_skill", S(skill))),
                    Tail(job_results), skill)
RECURSIVE UniqueJobs(_, _, _, _)
UniqueJobs(unique, skills, results, per_page) ==
    IF Len(skills) = 0 THEN unique
    ELSE UniqueJobs(AddResults(unique, FirstN(results[Head(skills)], per_page), Head(skills)),
                    Tail(skills), results, per_page)
\* sorted(jobs, key=lambda x: x.get('rating', 0), reverse=True): stable
RatingOf(job) == DictGetOr(job, "rating", Num(0))[2]
RECURSIVE InsertByRating(_, _)
InsertByRating(sorted, job) ==
    IF Len(sorted) = 0 THEN <<job>>
    ELSE IF RatingOf(Head(sorted)) >= RatingOf(job)
         THEN <<Head(sorted)>> \o InsertByRating(Tail(sorted), job)
         ELSE <<job>> \o sorted
RECURSIVE SortedByRating(_)
SortedByRating(jobs) ==
    IF Len(jobs) = 0 THEN <<>>
    ELSE InsertByRating(SortedByRating(SubSeq(jobs, 1, Len(jobs) - 1)), jobs[Len(jobs)])
\* jobs_by_skill[skill]: the rated jobs that carry this match_skill
RECURSIVE JobsBySkill(_, _)
JobsBySkill(rated_jobs, skill) ==
    IF Len(rated_jobs) = 0 THEN <<>>
    ELSE (IF Truthy(DictGet(Head(rated_jobs), "match_skill"))
             /\ DictGet(Head(rated_jobs), "match_skill") = S(skill)
          THEN <<Head(rated_jobs)>> ELSE <<>>)
         \o JobsBySkill(Tail(rated_jobs), skill)
\* the best rated job of each skill, unless its identifier was taken already
RECURSIVE TopPerSkill(_, _, _)
TopPerSkill(final_top_jobs, skills, rated_jobs) ==
    IF Len(skills) = 0 THEN final_top_jobs
    ELSE LET jobs_for_skill == SortedByRating(JobsBySkill(rated_jobs, Head(skills)))
             taken == Len(jobs_for_skill) > 0
                      /\ JobIdentifier(jobs_for_skill[1]) \notin Identifiers(final_top_jobs)
         IN TopPerSkill(IF taken THEN Append(final_top_jobs, jobs_for_skill[1])
                        ELSE final_top_jobs,
                        Tail(skills), rated_jobs)
\* the remaining slots, up to 7 in all, from the best rated overall
RECURSIVE FillUp(_, _)
FillUp(final_top_jobs, all_sorted_jobs) ==
    IF Len(all_sorted_jobs) = 0 \/ Len(final_top_jobs) >= 7 THEN final_top_jobs
    ELSE FillUp(IF JobIdentifier(Head(all_sorted_jobs)) \in Identifiers(final_top_jobs)
                THEN final_top_jobs
                ELSE Append(final_top_jobs, Head(all_sorted_jobs)),
                Tail(all_sorted_jobs))
NotAvailable == Str(<<"N", "/", "A">>)
DisplayNameOr(job, k) ==
    IF DictHas(job, k) THEN DictGetOr(DictGet(job, k), "display_name", NotAvailable)
    ELSE NotAvailable
FormattedJob(job, variant) ==
    Dict(<< <<"title", IF variant = "integrate" THEN DictGetOr(job, "title", NotAvailable)
                       ELSE DictGet(job, "title")>>,
            <<"company", DisplayNameOr(job, "company")>>,
            <<"location", DisplayNameOr(job, "location")>>,
            <<"match_skill", DictGet(job, "match_skill")>>,
            <<"rating", DictGetOr(job, "rating", Num(0))>> >>)
\* the selection: the best of each skill, the fill-up, the final sort
SelectedJobs(rated_jobs, skills) ==
    SortedByRating(FillUp(TopPerSkill(<<>>, skills, rated_jobs), SortedByRating(rated_jobs)))
FormattedJobs(jobs, variant) == [i \in 1..Len(jobs) |-> FormattedJob(jobs[i], variant)]
\* the handler from the extracted skills on: the "jobs" list of the response
FindJobs(skills, results, outcome_, variant) ==
    IF Len(skills) = 0 THEN <<>>
    ELSE IF variant = "integrate"
            /\ Len(UniqueJobs(<<>>, skills, results, ResultsPerPage(skills, variant))) = 0
         THEN <<>>
    ELSE FormattedJobs(
           SelectedJobs(
             GetJobRatingsInOneCall(
               UniqueJobs(<<>>, skills, results, ResultsPerPage(skills, variant)),
               skills, outcome_, variant, TRUE),
             skills),
           variant)

\* resumes with 1 to MaxSkills skills; every skill finds a job of its own, and
\* MaxShared jobs that every search returns
MaxSkills == 8
MaxShared == 2
SkillPool == <<"s1", "s2", "s3", "s4", "s5", "s6", "s7", "s8", "s9", "s10">>
SkillNames == SubSeq(SkillPool, 1, MaxSkills)
Posting(t, c) ==
    Dict(<< <<"title", S(t)>>, <<"company", Dict(<< <<"display_name", S(c)>> >>)>>,
            <<"location", Dict(<< <<"display_name", S("Pune")>> >>)>> >>)
Unnamed(t) == Dict(<< <<"title", S(t)>>, <<"company", Dict(<<>>)>> >>)
Literal(t) ==
    Dict(<< <<"title", S(t)>>, <<"company", Dict(<< <<"display_name", NotAvailable>> >>)>>,
            <<"location", Dict(<< <<"display_name", NotAvailable>> >>)>> >>)
ResultsFor(shared) ==
    [k \in SeqToSet(SkillNames) |->
        <<Posting(k, "acme")>> \o [i \in 1..shared |-> Posting("common", SkillNames[i])]]
\* the model rates the first MaxRated jobs and leaves the others out
MaxRated == 2
Rated(n) == IF n < MaxRated THEN n ELSE MaxRated
Descending(n) == ArrayText([i \in 1..Rated(n) |-> Rating(i - 1, 10 - i, S("m"))],
                           [i \in 1..(Rated(n) - 1) |-> <<",">>])
Ascending(n) == ArrayText([i \in 1..Rated(n) |-> Rating(i - 1, i, S("m"))],
                          [i \in 1..(Rated(n) - 1) |-> <<",">>])
FindJobsCalls ==
    UNION { { [fn |-> "find_jobs", shape |-> "skills", doc |-> None,
               args |-> <<SubSeq(SkillNames, 1, c[1]), ResultsFor(c[2]), o, v>>,
               pc |-> "call"] :
                 o \in {<<"raise">>, <<"text", Descending(c[1] + c[2])>>,
                        <<"text", Ascending(c[1] + c[2])>>},
                 v \in RatingVariants } :
            c \in (0..MaxSkills) \X (0..MaxShared) }
    \cup
    { [fn |-> "find_jobs", shape |-> "unnamed", doc |-> None,
       args |-> <<<<"s1">>, [k \in SeqToSet(SkillNames) |-> <<Unnamed("dev"), Literal("dev")>>],
                  o, v>>, pc |-> "call"] :
         o \in {<<"raise">>}, v \in RatingVariants }

PureFindJobs ==
    /\ pcall.pc = "call" /\ pcall.fn = "find_jobs"
    /\ presult' = FindJobs(pcall.args[1], pcall.args[2], pcall.args[3], pcall.args[4])
    /\ pcall' = [pcall EXCEPT !.pc = "done"]
    /\ UNCHANGED <<varsJson, varsMerge, varsStore, varsUpdate, varsUpload, varsFlow>>

\* C30: the jobs of a job-matching response are at most 7, and no two of
\* them have the same (title, company, location).
ShownAs(job) == <<DictGet(job, "title"), DictGet(job, "company"), DictGet(job, "location")>>
C30_AtMostSevenDistinct ==
    (pcall.pc = "done" /\ pcall.fn = "find_jobs") =>
        /\ Len(presult) <= 7
        /\ \A i, j \in 1..Len(presult) : i # j => ShownAs(presult[i]) # ShownAs(presult[j])

PureCalls == SafeJsonLoadsCalls \cup BestSectionKeyCalls \cup RatingsCalls \cup TextCalls
             \cup ParseCalls \cup SelfMergeCalls \cup DocxCalls \cup FindJobsCalls
PureInit ==
    /\ JsonIdle /\ MergeIdle /\ StoreIdle /\ UpdateIdle /\ UploadIdle /\ FlowIdle
    /\ \/ pcall \in SafeJsonLoadsCalls
       \/ pcall \in BestSectionKeyCalls
       \/ pcall \in RatingsCalls
       \/ pcall \in TextCalls
       \/ pcall \in ParseCalls
       \/ pcall \in SelfMergeCalls
       \/ pcall \in DocxCalls
       \/ pcall \in FindJobsCalls
    /\ presult = NoResult
PureNext ==
    \/ PureSafeJsonLoads
    \/ PureBestSectionKey
    \/ PureGenerateCareerRoadmap
    \/ PureGetTutorExplanation
    \/ PureGetJobRatingsInOneCall
    \/ PureParseUserOptimizationInput
    \/ PureOptimizeResumeJson
    \/ PureSaveResumeJsonToDocx
    \/ PureFindJobs
SpecPure == PureInit /\ [][PureNext]_vars

\* =================================================================
\* SpecRoundTrip: one record saved for a new owner, then read back
\* =================================================================
DescLists ==
    { List(<<>>), List(<<S("a")>>), List(<<S("a"), S("b")>>),
      List(<<Str(<<"a", "\n", "b">>)>>), List(<<Str(<<>>)>>),
      List(<<S("a"), Str(<<>>)>>), List(<<S("a"), S("b"), S("c")>>) }
Owner == <<"personal_info", Dict(<< <<"name", S("Ann")>> >>)>>
\* a record whose projects carry the description L
DescRecord(L) ==
    Dict(<< Owner,
            <<"projects", List(<<Dict(<< <<"title", S("X")>>, <<"description", L>> >>),
                                 Dict(<< <<"title", S("Y")>>,
                                         <<"description", List(<<S("kept")>>)>> >>)>>)>> >>)
\* a record with a section under the key k, and one that also has a sibling
\* section the mapping sends to 'skills'
KeyRecord(k, content) == Dict(<< Owner, <<k, content>> >>)
SiblingRecord(k, content) ==
    Dict(<< Owner, <<"technical_skills", Dict(<< <<"Languages", List(<<S("Python")>>)>> >>)>>,
            <<k, content>> >>)
AiKeys ==
    { "Achievements", "Hobbies", "Work Experience", "personal_projects", "experience",
      "resume_metadata", "education" }
Contents ==
    { List(<<S("won prize")>>), List(<<>>), S("chess"),
      List(<<Dict(<< <<"title", S("T")>>, <<"description", List(<<S("d")>>)>> >>)>>) }
RoundTripRecords ==
    {DescRecord(L) : L \in DescLists}
    \cup {KeyRecord(k, c) : k \in AiKeys, c \in Contents}
    \cup {SiblingRecord(k, c) : k \in {"Achievements"}, c \in Contents}

RoundTripInit ==
    /\ JsonIdle /\ MergeIdle /\ StoreIdle /\ UpdateIdle /\ UploadIdle /\ FlowIdle
    /\ pcall \in { [fn |-> "save_fetch", variant |-> v, parsed_data |-> rec,
                   atFront |-> f, store |-> EmptyStore, saved |-> FALSE, pc |-> "save"] :
                     v \in Variants, rec \in RoundTripRecords, f \in BOOLEAN }
    /\ presult = NoResult

\* POST /upload as far as the datastore goes
RoundTripSave ==
    /\ pcall.pc = "save"
    /\ LET r == IF pcall.variant = "integrate"
                THEN UpdateResumeRelational(pcall.store, S("cv.pdf"), pcall.parsed_data, 1,
                                            pcall.atFront)
                ELSE SaveResumeRelational(pcall.store, S("cv.pdf"), pcall.parsed_data)
       IN pcall' = [pcall EXCEPT !.store = r.store, !.saved = r.ret, !.pc = "fetch"]
    /\ UNCHANGED <<presult, varsJson, varsMerge, varsStore, varsUpdate, varsUpload, varsFlow>>

\* fetch_resume_relational of the owner, in either view
RoundTripFetch ==
    /\ pcall.pc = "fetch"
    /\ \E get_optimized \in BOOLEAN :
          presult' = FetchResumeRelational(pcall.store, get_optimized, pcall.variant)
    /\ pcall' = [pcall EXCEPT !.pc = "done"]
    /\ UNCHANGED <<varsJson, varsMerge, varsStore, varsUpdate, varsUpload, varsFlow>>

RoundTripNext == RoundTripSave \/ RoundTripFetch
SpecRoundTrip == RoundTripInit /\ [][RoundTripNext]_vars

StringList(v) == IsList(v) /\ \A i \in 1..Len(v[2]) : IsStr(v[2][i])
\* C24: an item saved with the description list L is read back with a
\* description equal to L.
C24_DescriptionRoundTrip ==
    (pcall.pc = "done" /\ DictHas(pcall.parsed_data, "projects")
       /\ IsList(DictGet(pcall.parsed_data, "projects"))) =>
        \A i \in 1..Len(DictGet(pcall.parsed_data, "projects")[2]) :
            LET item == DictGet(pcall.parsed_data, "projects")[2][i]
            IN StringList(DictGet(item, "description")) =>
                  /\ IsDict(presult) /\ DictHas(presult, "projects")
                  /\ \E j \in 1..Len(DictGet(presult, "projects")[2]) :
                        LET read == DictGet(presult, "projects")[2][j]
                        IN /\ DictGet(read, "title") = DictGet(item, "title")
                           /\ DictGet(read, "description") = DictGet(item, "description")

\* C25: a section key maps to at most one canonical key, and a key that maps
\* to none is stored as an additional section and read back under that key.
CanonicalKeys ==
    {"personal_info", "summary", "skills"} \cup SeqToSet(SectionKeys)
C25_UnmappedPreserved ==
    pcall.pc = "done" =>
        \A i \in 1..Len(pcall.parsed_data[2]) :
            LET k == pcall.parsed_data[2][i][1]
                mapped == MapAiSectionToStandardKey(k, pcall.variant)
            IN /\ mapped # None => mapped[2] \in CanonicalKeys
               /\ (mapped = None /\ k \notin CanonicalKeys)
                     => (IsDict(presult) /\ DictHas(presult, k))

\* =================================================================
\* SpecHandlers: one request to a handler of the Optimization backend, from
\* its first statement to the end of its finally clause
\* =================================================================
Handlers ==
    {"upload_and_parse_resume", "optimize_resume", "optimize_linkedin_profile",
     "download_resume"}
\* the datastore or rendering step that raises in this request, if any;
\* "drop": the connection is lost while the request runs
Faults == {"none", "connect", "fetch", "write", "render", "drop"}

\* a connection that does not close
Mut_CloseConnection(db) == db
\* finally: if db: db.close_connection(), which closes a connection that
\* is_connected()
CloseConnection(db) == IF db = "open" THEN "closed" ELSE db

\* the statements of the try block after DatabaseManager() returned:
\* "return" with the status of the response, or "raise" (HTTPException or a
\* datastore error alike)
TryBody(h, found, model, fault) ==
    CASE h = "upload_and_parse_resume" ->
            IF fault \in {"write", "fetch", "drop"} THEN <<"raise">> ELSE <<"return", 200>>
      [] h = "optimize_resume" ->
            IF fault \in {"fetch", "drop"} \/ ~found \/ fault = "write"
            THEN <<"raise">> ELSE <<"return", 200>>
      [] h = "optimize_linkedin_profile" ->
            IF fault \in {"fetch", "drop"} \/ ~found \/ model = "fail"
            THEN <<"raise">> ELSE <<"return", 200>>
      [] OTHER ->
            IF fault \in {"fetch", "drop", "render"} \/ ~found
            THEN <<"raise">> ELSE <<"return", 200>>

HandlersInit ==
    /\ JsonIdle /\ MergeIdle /\ StoreIdle /\ UpdateIdle /\ UploadIdle /\ FlowIdle
    /\ pcall \in { [fn |-> h, found |-> f, model |-> m, text |-> t, fault |-> x,
                   pc |-> "try", db |-> "none", tmp |-> FALSE, status |-> 0] :
                     h \in Handlers, f \in BOOLEAN, m \in {"ok", "fail"},
                     t \in {"text", "blank"}, x \in Faults }
    /\ presult = NoResult

\* upload only: the temporary file, the text and the model's structure come
\* before the connection; no text and no structure raise
HandlerPrepare ==
    /\ pcall.pc = "try"
    /\ pcall' = IF pcall.fn # "upload_and_parse_resume"
                THEN [pcall EXCEPT !.pc = "connect"]
                ELSE IF pcall.text = "blank" \/ pcall.model = "fail"
                     THEN [pcall EXCEPT !.pc = "except", !.tmp = TRUE]
                ELSE [pcall EXCEPT !.pc = "connect", !.tmp = TRUE]
    /\ UNCHANGED <<presult, varsJson, varsMerge, varsStore, varsUpdate, varsUpload, varsFlow>>

\* db = backend.DatabaseManager(): a failed connect ends in sys.exit(1), which
\* no except clause of the handler catches
HandlerConnect ==
    /\ pcall.pc = "connect"
    /\ pcall' = IF pcall.fault = "connect"
                THEN [pcall EXCEPT !.pc = "finally", !.status = -1]
                ELSE [pcall EXCEPT !.pc = "body", !.db = "open"]
    /\ UNCHANGED <<presult, varsJson, varsMerge, varsStore, varsUpdate, varsUpload, varsFlow>>

HandlerBody ==
    /\ pcall.pc = "body"
    /\ LET r == TryBody(pcall.fn, pcall.found, pcall.model, pcall.fault)
       IN pcall' = [pcall EXCEPT
                      !.pc = IF r[1] = "raise" THEN "except" ELSE "finally",
                      !.status = IF r[1] = "raise" THEN 0 ELSE r[2],
                      !.db = IF pcall.fault = "drop" THEN "lost" ELSE @]
    /\ UNCHANGED <<presult, varsJson, varsMerge, varsStore, varsUpdate, varsUpload, varsFlow>>

\* except Exception as e: raise HTTPException(status_code=500, ..)
HandlerExcept ==
    /\ pcall.pc = "except"
    /\ pcall' = [pcall EXCEPT !.pc = "finally", !.status = 500]
    /\ UNCHANGED <<presult, varsJson, varsMerge, varsStore, varsUpdate, varsUpload, varsFlow>>

\* finally: if db: db.close_connection(); upload also removes its file
HandlerFinally ==
    /\ pcall.pc = "finally"
    /\ pcall' = [pcall EXCEPT !.pc = "done", !.db = CloseConnection(@), !.tmp = FALSE]
    /\ presult' = pcall.status
    /\ UNCHANGED <<varsJson, varsMerge, varsStore, varsUpdate, varsUpload, varsFlow>>

HandlersNext ==
    \/ HandlerPrepare
    \/ HandlerConnect
    \/ HandlerBody
    \/ HandlerExcept
    \/ HandlerFinally
SpecHandlers == HandlersInit /\ [][HandlersNext]_vars

\* C26: in every handler a datastore handle opened by the request is closed
\* when the request has finished, on the success path and on every error path.
C26_HandleClosed == pcall.pc = "done" => pcall.db # "open"
C26_Witness ==
    /\ pcall.pc = "done" /\ pcall.db = "closed" /\ presult = 500
    /\ pcall.fn = "optimize_resume" /\ ~pcall.found

====
